---- MODULE Spec2Model ----
(***************************************************************************)
(* streamtabs (src/src/main.rs): the stdin reader thread, the TTY reader   *)
(* thread and the coordinator loop of run(), with the tab store they       *)
(* drive.  Texts are sequences of one-character strings.  Option<T> is a   *)
(* sequence of length 0 (None) or 1 (Some).  Tabs and rows keep the        *)
(* source's 0-based indices; buffers are sequences whose front is index 1. *)
(***************************************************************************)
EXTENDS Integers, Sequences, FiniteSets, TLC

\* ------------------------------------------------------------- bounds
\* Number of lines the stdin reader may read in one behaviour.
MaxLines == 2
\* Number of UI messages the TTY reader may send in one behaviour.
MaxUi == 2
\* MAX_STORED_LINES_PER_TAB (main.rs:14 sets 5000), scaled down so that
\* a buffer fills and evicts within MaxLines.
MAX_STORED_LINES_PER_TAB == 1
\* Capacity of the line channel (main.rs:961 sets 1024), scaled down so
\* that the reader blocks on a full channel.
LineChannelCap == 1
\* Capacity of the UI channel (main.rs:963 sets 128), scaled down.
UiChannelCap == 1

\* Number of lines dispatched in one behaviour of SpecAccept.
MaxAccepts == 2
\* Number of toggles in one behaviour of SpecToggle.
MaxToggles == 3
\* SpecCounters: each counter starts at most this far below u64::MAX, and
\* below the counter it cannot exceed.
CounterHeadroom == 2
\* Number of lines dispatched in one behaviour of SpecCounters.
MaxDispatches == 3

\* ------------------------------------------------------ configuration
\* The non-empty CLI filters of the modelled run (main.rs:944-947).
Filters == << <<"a">>, <<"b">> >>

\* The raw lines read_line may return: text with its terminator.
RawLines == { <<"a", "\n">>, <<"b", "\r", "\n">> }

Min(a, b) == IF a < b THEN a ELSE b
Max(a, b) == IF a > b THEN a ELSE b

\* Option<T>
None == << >>
Some(x) == << x >>
IsSome(o) == Len(o) = 1
Unwrap(o) == o[1]

VARIABLES
  tabs,            \* Vec<Tab>: 0..n-1 -> [label, mode, lines, total_matches, seen_matches]
  active_index,    \* run: active_index
  next_seq,        \* run: next_seq
  selected_line,   \* run: Option<SelectedLine>
  dirty,           \* run: dirty
  paused,          \* run: paused
  pause_snapshot,  \* run: Option<PauseSnapshot>
  last_size,       \* run: last_size, <<cols, rows>>
  last_render_state, \* run: last_render_state
  rx,              \* line channel: messages sent and not yet received
  ui_rx,           \* UI channel: messages sent and not yet received
  cpc,             \* coordinator position in run
  rpc,             \* stdin reader position
  buf,             \* stdin reader: buf after trimming, while rpc = "send"
  upc,             \* TTY reader position
  stdin_read,      \* history: the trimmed lines read from stdin, in order
  dispatched,      \* history: the <<seq, text>> given to apply_line_to_tabs, in order
  ui_sent,         \* history: number of UI messages sent
  pause_buffers,   \* history: each tab's buffer when pause was entered (while paused)
  pause_seq,       \* history: number of lines dispatched when pause was entered
  last_event,      \* history: what the coordinator handled last: "Switch" (a tab
                   \* switch took place), "PauseEntered", or "Other"
  terminal,        \* the terminal modes TerminalGuard holds
  run_result,      \* what run returned: None (not returned), Some("Ok"), Some(error)
  exit_code,       \* the process exit code: None while the process lives
  stderr,          \* what the process has written to standard error, in order
  args,            \* std::env::args().skip(1)
  stdout_is_terminal, \* io::stdout().is_terminal()
  arg,             \* function specifications: the arguments drawn
  res              \* function specifications: the results so far

vars == << tabs, active_index, next_seq, selected_line, dirty, paused,
           pause_snapshot, last_size, last_render_state, rx, ui_rx,
           cpc, rpc, buf, upc, stdin_read, dispatched, ui_sent, pause_buffers,
           pause_seq, last_event, terminal, run_result, exit_code, stderr,
           args, stdout_is_terminal, arg, res >>

\* What the event loop leaves alone until it is left.
exitVars == << run_result, exit_code, stderr >>
envVars == << args, stdout_is_terminal >>
fnVars == << arg, res >>
progVars == << tabs, active_index, next_seq, selected_line, dirty, paused,
               pause_snapshot, last_size, last_render_state, rx, ui_rx,
               cpc, rpc, buf, upc, stdin_read, dispatched, ui_sent, pause_buffers,
               pause_seq, last_event, terminal, exitVars, envVars >>
outerVars == << terminal, exitVars, envVars, fnVars >>

\* ----------------------------------------------------------- Tab store
\* str::contains: f occurs as a contiguous substring of s
Contains(s, f) ==
  \E i \in 0..(Len(s) - Len(f)) : SubSeq(s, i + 1, i + Len(f)) = f

\* Tab::new
TabNew(filter) ==
  [label |-> filter, mode |-> [kind |-> "Contains", filter |-> filter],
   lines |-> << >>, total_matches |-> 0, seen_matches |-> 0]

\* Tab::unfiltered
TabUnfiltered ==
  [label |-> <<"(", "a", "l", "l", ")">>, mode |-> [kind |-> "All", filter |-> << >>],
   lines |-> << >>, total_matches |-> 0, seen_matches |-> 0]

\* Mutant of matches: starts_with instead of contains.
matches_starts_with(tab, line) ==
  IF tab.mode.kind = "All" THEN TRUE
  ELSE /\ Len(tab.mode.filter) <= Len(line)
       /\ SubSeq(line, 1, Len(tab.mode.filter)) = tab.mode.filter

\* Tab::matches
matches(tab, line) ==
  IF tab.mode.kind = "All" THEN TRUE ELSE Contains(line, tab.mode.filter)

\* Mutant of push_line: the newest record is evicted instead of the oldest.
push_line_pop_back(tab, seq, line) ==
  LET pushed == Append(tab.lines, [seq |-> seq, text |-> line])
  IN [tab EXCEPT !.lines = IF Len(pushed) > MAX_STORED_LINES_PER_TAB
                              THEN SubSeq(pushed, 1, Len(pushed) - 1) ELSE pushed,
                 !.total_matches = tab.total_matches + 1]

\* Mutant of push_line: the counter follows the buffer, an evicted record is
\* no longer counted.
push_line_uncounts_evicted(tab, seq, line) ==
  LET pushed == Append(tab.lines, [seq |-> seq, text |-> line])
  IN IF Len(pushed) > MAX_STORED_LINES_PER_TAB
       THEN [tab EXCEPT !.lines = Tail(pushed)]
       ELSE [tab EXCEPT !.lines = pushed, !.total_matches = tab.total_matches + 1]

\* Tab::push_line
push_line(tab, seq, line) ==
  LET pushed == Append(tab.lines, [seq |-> seq, text |-> line])
  IN [tab EXCEPT !.lines = IF Len(pushed) > MAX_STORED_LINES_PER_TAB
                              THEN Tail(pushed) ELSE pushed,
                 !.total_matches = tab.total_matches + 1]

\* Tab::unread_matches (saturating_sub)
unread_matches(tab) ==
  IF tab.total_matches >= tab.seen_matches
    THEN tab.total_matches - tab.seen_matches ELSE 0

\* Mutant of mark_seen_through: the match index is taken for a 0-based index,
\* so one more match is marked seen.
mark_seen_through_off_by_one(tab, max_match_index) ==
  LET capped == Min(max_match_index, tab.total_matches)
  IN IF capped + 1 > tab.seen_matches
       THEN [tab EXCEPT !.seen_matches = capped + 1] ELSE tab

\* Tab::mark_seen_through
mark_seen_through(tab, max_match_index) ==
  LET capped == Min(max_match_index, tab.total_matches)
  IN IF capped > tab.seen_matches THEN [tab EXCEPT !.seen_matches = capped] ELSE tab

\* Mutant of mark_tab_seen_live: the tab is not marked.
mark_tab_seen_live_noop(ts, index) == ts

\* mark_tab_seen_live
mark_tab_seen_live(ts, index) ==
  IF index \in DOMAIN ts
    THEN [ts EXCEPT ![index] = mark_seen_through(ts[index], ts[index].total_matches)]
    ELSE ts

\* Mutant of mark_tab_seen_paused: the tab is marked through its total.
mark_tab_seen_paused_through_total(ts, index, pause_match_cutoffs) ==
  IF index \in DOMAIN ts
    THEN [ts EXCEPT ![index] = mark_seen_through(ts[index], ts[index].total_matches)]
    ELSE ts

\* mark_tab_seen_paused
mark_tab_seen_paused(ts, index, pause_match_cutoffs) ==
  IF index \in DOMAIN ts
    THEN LET cutoff == IF index \in DOMAIN pause_match_cutoffs
                         THEN pause_match_cutoffs[index]
                         ELSE ts[index].total_matches
         IN [ts EXCEPT ![index] = mark_seen_through(ts[index], cutoff)]
    ELSE ts

\* Mutant of select_tab: the pause state is ignored and the tab is marked
\* seen live.
select_tab_marks_live(ts, active, next_index, is_paused, snapshot) ==
  IF next_index >= Cardinality(DOMAIN ts)
    THEN [tabs |-> ts, active_index |-> active]
    ELSE [active_index |-> next_index, tabs |-> mark_tab_seen_live(ts, next_index)]

\* Mutant of select_tab: in live mode the tab is marked seen through the pause
\* cutoffs, which exist only while paused.
select_tab_marks_paused_only(ts, active, next_index, is_paused, snapshot) ==
  IF next_index >= Cardinality(DOMAIN ts)
    THEN [tabs |-> ts, active_index |-> active]
    ELSE [active_index |-> next_index,
          tabs |-> IF IsSome(snapshot)
                     THEN mark_tab_seen_paused(ts, next_index,
                                               Unwrap(snapshot).match_cutoffs)
                     ELSE ts]

\* select_tab: the new <<tabs, active_index>>
select_tab(ts, active, next_index, is_paused, snapshot) ==
  IF next_index >= Cardinality(DOMAIN ts)
    THEN [tabs |-> ts, active_index |-> active]
    ELSE [active_index |-> next_index,
          tabs |-> IF is_paused
                     THEN IF IsSome(snapshot)
                            THEN mark_tab_seen_paused(ts, next_index,
                                                      Unwrap(snapshot).match_cutoffs)
                            ELSE ts
                     ELSE mark_tab_seen_live(ts, next_index)]

\* Mutant of apply_line_to_tabs: the active tab is marked seen also while
\* paused.
apply_line_to_tabs_ignores_pause(ts, active, is_paused, seq, line) ==
  [index \in DOMAIN ts |->
     IF matches(ts[index], line)
       THEN LET pushed == push_line(ts[index], seq, line)
            IN IF index = active
                 THEN mark_seen_through(pushed, pushed.total_matches)
                 ELSE pushed
       ELSE ts[index]]

\* apply_line_to_tabs: each tab is updated on its own (the loop body touches
\* only the tab it visits)
apply_line_to_tabs(ts, active, is_paused, seq, line) ==
  [index \in DOMAIN ts |->
     IF matches(ts[index], line)
       THEN LET pushed == push_line(ts[index], seq, line)
            IN IF index = active /\ ~is_paused
                 THEN mark_seen_through(pushed, pushed.total_matches)
                 ELSE pushed
       ELSE ts[index]]

\* -------------------------------------------------------------- render
\* RenderState::default
RenderStateDefault == [tab_hitboxes |-> << >>, line_rows |-> << >>]

\* " (paused)".chars().count()
PAUSED_LABEL_WIDTH == 9
\* number_piece " d " (one-digit shortcut), unread_piece (format "{:>6}"),
\* trailing_piece " "
NUMBER_PIECE_WIDTH == 3
UNREAD_PIECE_WIDTH == 6
TRAILING_PIECE_WIDTH == 1

\* tab_columns_limit
tab_columns_limit(total_cols, is_paused) ==
  IF is_paused THEN Max(total_cols - PAUSED_LABEL_WIDTH, 0) ELSE total_cols

\* draw: the tab strip loop, from tab i at column x; acc is tab_hitboxes
RECURSIVE tab_strip(_, _, _, _, _)
tab_strip(ts, i, x, limit, acc) ==
  LET n == Cardinality(DOMAIN ts)
      fixed_inner_width == NUMBER_PIECE_WIDTH + UNREAD_PIECE_WIDTH + TRAILING_PIECE_WIDTH
      desired_inner_width == fixed_inner_width + Len(ts[i].label) + 2
      remaining_cols == Max(limit - x, 0)
      inner_width == Min(desired_inner_width, Max(remaining_cols - 2, 0))
      right == x + inner_width + 1
      x1 == right + 1
      x2 == IF i + 1 < n /\ x1 < limit THEN x1 + 1 ELSE x1
  IN IF i >= n \/ x >= limit THEN acc
     ELSE IF remaining_cols < 3 \/ inner_width = 0 THEN acc
     ELSE tab_strip(ts, i + 1, x2, limit,
                    Append(acc, [index |-> i, left |-> x, right |-> right]))

\* Iterator::position / find over a sequence of test results: the 1-based
\* position of the first TRUE, 0 if there is none
FirstTrue(flags) ==
  IF \E k \in 1..Len(flags) : flags[k]
    THEN CHOOSE k \in 1..Len(flags) : flags[k] /\ \A j \in 1..(k - 1) : ~flags[j]
    ELSE 0

\* Mutant of prepare_visible_lines: the synthetic entry is appended.
prepare_visible_lines_appends(tab, cutoff_len, selected) ==
  LET taken == SubSeq(tab.lines, 1, Min(cutoff_len, Len(tab.lines)))
      lines == [k \in 1..Len(taken) |->
                  [seq |-> taken[k].seq, text |-> taken[k].text, selected |-> FALSE]]
  IN IF IsSome(selected)
       THEN LET sel == Unwrap(selected)
                existing == FirstTrue([k \in 1..Len(lines) |-> lines[k].seq = sel.seq])
            IN IF existing # 0
                 THEN [lines EXCEPT ![existing].selected = TRUE]
                 ELSE Append(lines, [seq |-> sel.seq, text |-> sel.text, selected |-> TRUE])
       ELSE lines

\* prepare_visible_lines
prepare_visible_lines(tab, cutoff_len, selected) ==
  LET taken == SubSeq(tab.lines, 1, Min(cutoff_len, Len(tab.lines)))
      lines == [k \in 1..Len(taken) |->
                  [seq |-> taken[k].seq, text |-> taken[k].text, selected |-> FALSE]]
  IN IF IsSome(selected)
       THEN LET sel == Unwrap(selected)
                existing == FirstTrue([k \in 1..Len(lines) |-> lines[k].seq = sel.seq])
                pos == FirstTrue([k \in 1..Len(lines) |-> lines[k].seq > sel.seq])
                insert_at == IF pos = 0 THEN Len(lines) + 1 ELSE pos
            IN IF existing # 0
                 THEN [lines EXCEPT ![existing].selected = TRUE]
                 ELSE SubSeq(lines, 1, insert_at - 1)
                      \o << [seq |-> sel.seq, text |-> sel.text, selected |-> TRUE] >>
                      \o SubSeq(lines, insert_at, Len(lines))
       ELSE lines

\* Mutant of first_body_row: the view is top-anchored.
first_body_row_top(body_start_row, body_height, visible_count) == body_start_row

\* first_body_row
first_body_row(body_start_row, body_height, visible_count) ==
  body_start_row + Max(body_height - visible_count, 0)

\* Mutant of viewport_for_lines: the viewport is bottom-anchored in paused
\* mode too, the selected line is not centred.
viewport_for_lines_bottom_anchored(body_start_row, body_height, lines, is_paused) ==
  LET visible_count == Min(Len(lines), body_height)
  IN [start_index |-> Max(Len(lines) - visible_count, 0),
      visible_count |-> visible_count,
      first_row |-> first_body_row(body_start_row, body_height, visible_count)]

\* Mutant of viewport_for_lines: in paused mode the window starts at the
\* selected line instead of half a body above it.
viewport_for_lines_pin_on_top(body_start_row, body_height, lines, is_paused) ==
  LET visible_count == Min(Len(lines), body_height)
      selected_pos == FirstTrue([k \in 1..Len(lines) |-> lines[k].selected])
  IN IF visible_count = 0
       THEN [start_index |-> 0, visible_count |-> 0, first_row |-> body_start_row]
     ELSE IF is_paused /\ selected_pos # 0
       THEN LET selected_index == selected_pos - 1
                start_index == Min(selected_index, Max(Len(lines) - visible_count, 0))
                selected_row == Max(selected_index - start_index, 0)
                max_first_row == body_start_row + Max(body_height - visible_count, 0)
                first_row0 == body_start_row
                                + Max((body_height \div 2) - selected_row, 0)
                first_row == IF first_row0 > max_first_row THEN max_first_row ELSE first_row0
            IN [start_index |-> start_index, visible_count |-> visible_count,
                first_row |-> first_row]
     ELSE [start_index |-> Max(Len(lines) - visible_count, 0),
           visible_count |-> visible_count,
           first_row |-> first_body_row(body_start_row, body_height, visible_count)]

\* viewport_for_lines: [start_index, visible_count, first_row], start_index 0-based
viewport_for_lines(body_start_row, body_height, lines, is_paused) ==
  LET visible_count == Min(Len(lines), body_height)
      selected_pos == FirstTrue([k \in 1..Len(lines) |-> lines[k].selected])
  IN IF visible_count = 0
       THEN [start_index |-> 0, visible_count |-> 0, first_row |-> body_start_row]
     ELSE IF is_paused /\ selected_pos # 0
       THEN LET selected_index == selected_pos - 1
                half == body_height \div 2
                max_start == Max(Len(lines) - visible_count, 0)
                start_index == Min(Max(selected_index - half, 0), max_start)
                selected_row == Max(selected_index - start_index, 0)
                desired_selected_row == body_height \div 2
                min_first_row == body_start_row
                max_first_row == body_start_row + Max(body_height - visible_count, 0)
                first_row0 == body_start_row + Max(desired_selected_row - selected_row, 0)
                first_row1 == IF first_row0 < min_first_row THEN min_first_row ELSE first_row0
                first_row == IF first_row1 > max_first_row THEN max_first_row ELSE first_row1
            IN [start_index |-> start_index, visible_count |-> visible_count,
                first_row |-> first_row]
     ELSE [start_index |-> Max(Len(lines) - visible_count, 0),
           visible_count |-> visible_count,
           first_row |-> first_body_row(body_start_row, body_height, visible_count)]

\* draw: cutoff_len, the number of buffer lines of tab index the body is built from
cutoff_len(ts, index, pause_line_cutoffs) ==
  LET len == Len(ts[index].lines)
  IN Min(IF IsSome(pause_line_cutoffs) /\ index \in DOMAIN Unwrap(pause_line_cutoffs)
           THEN Unwrap(pause_line_cutoffs)[index]
           ELSE len,
         len)

\* draw: the line_rows of the RenderState it returns, rows 0..rows-1
draw_line_rows(ts, active, is_paused, pause_line_cutoffs, selected, size) ==
  LET cols == size[1]
      rows == size[2]
      body_start_row == IF rows >= 3 THEN 3 ELSE 2
      body_height == rows - body_start_row
      visible_lines == prepare_visible_lines(ts[active],
                         cutoff_len(ts, active, pause_line_cutoffs), selected)
      vp == viewport_for_lines(body_start_row, body_height, visible_lines, is_paused)
      RowLine(y) == visible_lines[vp.start_index + (y - vp.first_row) + 1]
  IN IF rows = 0 \/ cols = 0 \/ rows <= body_start_row
       THEN [y \in 0..(rows - 1) |-> None]
       ELSE [y \in 0..(rows - 1) |->
               IF y >= vp.first_row /\ y < vp.first_row + vp.visible_count
                 THEN Some(RowLine(y)) ELSE None]

\* draw: the RenderState it returns (what it writes to the terminal is not modelled)
draw(ts, active, is_paused, pause_line_cutoffs, selected, size) ==
  LET cols == size[1]
      rows == size[2]
  IN [tab_hitboxes |->
        IF rows = 0 \/ cols = 0
          THEN << >>
          ELSE tab_strip(ts, 0, 0, tab_columns_limit(cols, is_paused), << >>),
      line_rows |->
        draw_line_rows(ts, active, is_paused, pause_line_cutoffs, selected, size)]

\* tab_index_at_position
tab_index_at_position(render_state, column, row) ==
  LET hb == render_state.tab_hitboxes
      k == FirstTrue([j \in 1..Len(hb) |-> column >= hb[j].left /\ column <= hb[j].right])
  IN IF row > 2 \/ k = 0 THEN None ELSE Some(hb[k].index)

\* line_at_row
line_at_row(render_state, row) ==
  IF row \in DOMAIN render_state.line_rows THEN render_state.line_rows[row] ELSE None

\* Mutant of toggle_selected_line: the pin is recognised by its text.
toggle_selected_line_by_text(selected, line) ==
  IF IsSome(selected) /\ Unwrap(selected).text = line.text
    THEN None
    ELSE Some([seq |-> line.seq, text |-> line.text])

\* toggle_selected_line
toggle_selected_line(selected, line) ==
  IF IsSome(selected) /\ Unwrap(selected).seq = line.seq
    THEN None
    ELSE Some([seq |-> line.seq, text |-> line.text])

\* middle_visible_line
middle_visible_line(render_state) ==
  LET rowsOf == render_state.line_rows
      occupied == { y \in DOMAIN rowsOf : IsSome(rowsOf[y]) }
      n == Cardinality(occupied)
  IN IF n = 0 THEN None
     ELSE LET y == CHOOSE y \in occupied :
                     Cardinality({ z \in occupied : z < y }) = n \div 2
          IN rowsOf[y]

\* ------------------------------------------------------------ messages
\* InputMessage
LineMsg(text) == [kind |-> "Line", text |-> text]
ClosedMsg == [kind |-> "Closed", text |-> << >>]
InputErrorMsg == [kind |-> "Error", text |-> << >>]

\* UiMessage
UiMsg(kind, index, column, row) ==
  [kind |-> kind, index |-> index, column |-> column, row |-> row]
NextTabMsg == UiMsg("NextTab", 0, 0, 0)
SelectTabMsg(i) == UiMsg("SelectTab", i, 0, 0)
TogglePauseMsg == UiMsg("TogglePause", 0, 0, 0)
ClearSelectionMsg == UiMsg("ClearSelection", 0, 0, 0)
SelectMiddleMsg == UiMsg("SelectMiddleVisibleLine", 0, 0, 0)
MouseLeftDownMsg(c, r) == UiMsg("MouseLeftDown", 0, c, r)
QuitMsg == UiMsg("Quit", 0, 0, 0)
UiErrorMsg == UiMsg("Error", 0, 0, 0)

\* The sizes terminal::size() reports in the modelled run, <<cols, rows>>; the
\* terminal may be resized at any time, so each call reports any of them.
TermSizes == { <<40, 5>> }
\* The tab indices the digit keys of the modelled run select (the last is
\* past the end of tabs).
SelectKeys == { 2, 3 }
\* The cells the mouse is pressed on in the modelled run, <<column, row>>:
\* inside the box of tab 1, and on the bottom body row.
ClickCells == { <<25, 1>>, <<0, 4>> }

\* The messages InputParser::feed produces from key and mouse bytes.
KeyMessages ==
  { NextTabMsg, TogglePauseMsg, ClearSelectionMsg, SelectMiddleMsg, QuitMsg }
  \cup { SelectTabMsg(i) : i \in SelectKeys }
  \cup { MouseLeftDownMsg(c[1], c[2]) : c \in ClickCells }

\* ------------------------------------------------------------- process
\* The terminal modes TerminalGuard::enter sets up: raw mode, then
\* EnterAlternateScreen, EnableMouseCapture, Hide.
TerminalModes == { "raw_mode", "alternate_screen", "mouse_capture", "cursor_hidden" }

\* TerminalGuard::enter, when it succeeds
TerminalGuardEnter(held) == held \cup TerminalModes

\* Mutant of TerminalGuardDrop: raw mode is not disabled.
TerminalGuardDrop_keeps_raw_mode(held) == held \ (TerminalModes \ { "raw_mode" })

\* Drop for TerminalGuard: disable_raw_mode, then Show, DisableMouseCapture,
\* LeaveAlternateScreen
TerminalGuardDrop(held) == held \ TerminalModes

\* The errors run returns: the io::Error of the TTY check, and the errors of
\* the stdin reader, of the TTY reader and of the terminal calls.
ErrNotTty == "stdout must be a TTY"
ErrStdin == "stdin read error"
ErrTty == "tty read error"
ErrTerminal == "terminal error"

\* Mutant of main_exit_code: an error of run is reported with the usage code.
main_exit_code_usage(result) == IF result = "Ok" THEN 0 ELSE 2

\* main: the exit code for what run returned
main_exit_code(result) == IF result = "Ok" THEN 0 ELSE 1

\* main: what it writes to standard error for what run returned
main_stderr(result) ==
  IF result = "Ok" THEN << >> ELSE << << "streamtabs failed", result >> >>

\* run returns from inside the guard's block (break 'app and Ok(()), or
\* return Err): _guard is dropped, then main ends the process
LeaveLoop(result) ==
  /\ terminal' = TerminalGuardDrop(terminal)
  /\ run_result' = Some(result)
  /\ exit_code' = Some(main_exit_code(result))
  /\ stderr' = stderr \o main_stderr(result)

\* ---------------------------------------------------------------- Init
\* run: the state when the event loop is entered
LoopEntered ==
  /\ tabs = [i \in 0..Len(Filters) |-> IF i = 0 THEN TabUnfiltered ELSE TabNew(Filters[i])]
  /\ active_index = 0
  /\ next_seq = 0
  /\ selected_line = None
  /\ dirty = TRUE
  /\ paused = FALSE
  /\ pause_snapshot = None
  /\ last_size \in TermSizes
  /\ last_render_state = RenderStateDefault
  /\ rx = << >>
  /\ ui_rx = << >>
  /\ cpc = "lines"
  /\ rpc = "read"
  /\ buf = << >>
  /\ upc = "read"
  /\ stdin_read = << >>
  /\ dispatched = << >>
  /\ ui_sent = 0
  /\ pause_buffers = [i \in 0..Len(Filters) |-> << >>]
  /\ pause_seq = 0
  /\ last_event = "Other"
  /\ terminal = TerminalGuardEnter({ })
  /\ run_result = None
  /\ exit_code = None
  /\ stderr = << >>
  /\ args = Filters
  /\ stdout_is_terminal = TRUE

Init ==
  /\ LoopEntered
  /\ arg = << >>
  /\ res = << >>

Running == cpc \in { "lines", "ui", "draw" }

coordVars == << tabs, active_index, next_seq, selected_line, dirty, paused,
                pause_snapshot, last_size, last_render_state, cpc, dispatched,
                pause_buffers, pause_seq, last_event >>
readerVars == << rpc, buf, stdin_read >>
ttyVars == << upc, ui_sent >>

\* ------------------------------------------------------- stdin reader
\* spawn_input_reader: the trimming of buf after read_line
TrimLine(raw) ==
  LET n == Len(raw)
      noLf == IF n > 0 /\ raw[n] = "\n" THEN SubSeq(raw, 1, n - 1) ELSE raw
      m == Len(noLf)
  IN IF n > 0 /\ raw[n] = "\n" /\ m > 0 /\ noLf[m] = "\r"
       THEN SubSeq(noLf, 1, m - 1) ELSE noLf

\* SyncSender::send on a channel with room: the message joins the back
ChannelSend(chan, msg) == Append(chan, msg)
\* Receiver::try_recv on a non-empty channel: the message at the front
ChannelFront(chan) == Head(chan)
ChannelRest(chan) == Tail(chan)

\* read_line returns Ok(n > 0): trim (the thread lives as long as the process,
\* which ends when run returns)
ReaderRead ==
  /\ rpc = "read"
  /\ Running
  /\ Len(stdin_read) < MaxLines
  /\ \E raw \in RawLines :
       /\ buf' = TrimLine(raw)
       /\ stdin_read' = Append(stdin_read, TrimLine(raw))
  /\ rpc' = "send"
  /\ UNCHANGED << coordVars, ttyVars, rx, ui_rx >>
  /\ UNCHANGED outerVars

\* Mutant of ReaderSend: try_send instead of send, a line is dropped when the
\* channel is full.
ReaderSend_try_send ==
  /\ rpc = "send"
  /\ Running
  /\ rx' = IF Len(rx) < LineChannelCap THEN ChannelSend(rx, LineMsg(buf)) ELSE rx
  /\ rpc' = "read"
  /\ UNCHANGED << coordVars, ttyVars, buf, stdin_read, ui_rx >>
  /\ UNCHANGED outerVars

\* tx.send(InputMessage::Line(buf.clone())), which blocks while the channel is full
ReaderSend ==
  /\ rpc = "send"
  /\ Running
  /\ Len(rx) < LineChannelCap
  /\ rx' = ChannelSend(rx, LineMsg(buf))
  /\ rpc' = "read"
  /\ UNCHANGED << coordVars, ttyVars, buf, stdin_read, ui_rx >>
  /\ UNCHANGED outerVars

\* read_line returns Ok(0): send Closed and stop
ReaderEof ==
  /\ rpc = "read"
  /\ Running
  /\ Len(rx) < LineChannelCap
  /\ rx' = ChannelSend(rx, ClosedMsg)
  /\ rpc' = "stopped"
  /\ UNCHANGED << coordVars, ttyVars, buf, stdin_read, ui_rx >>
  /\ UNCHANGED outerVars

\* read_line returns Err: send Error and stop
ReaderError ==
  /\ rpc = "read"
  /\ Running
  /\ Len(rx) < LineChannelCap
  /\ rx' = ChannelSend(rx, InputErrorMsg)
  /\ rpc' = "stopped"
  /\ UNCHANGED << coordVars, ttyVars, buf, stdin_read, ui_rx >>
  /\ UNCHANGED outerVars

\* tx.send fails once run has returned and dropped the receiver
ReaderSendFails ==
  /\ rpc = "send"
  /\ ~Running
  /\ rpc' = "stopped"
  /\ UNCHANGED << coordVars, ttyVars, buf, stdin_read, rx, ui_rx >>
  /\ UNCHANGED outerVars

\* --------------------------------------------------------- TTY reader
\* spawn_ui_reader: a message from parser.feed is sent (blocking while full)
TtySend ==
  /\ upc = "read"
  /\ Running
  /\ ui_sent < MaxUi
  /\ Len(ui_rx) < UiChannelCap
  /\ \E m \in KeyMessages : ui_rx' = ChannelSend(ui_rx, m)
  /\ ui_sent' = ui_sent + 1
  /\ UNCHANGED << coordVars, readerVars, upc, rx >>
  /\ UNCHANGED outerVars

\* tty.read returns Ok(0): send Quit and stop
TtyEof ==
  /\ upc = "read"
  /\ Running
  /\ ui_sent < MaxUi
  /\ Len(ui_rx) < UiChannelCap
  /\ ui_rx' = ChannelSend(ui_rx, QuitMsg)
  /\ ui_sent' = ui_sent + 1
  /\ upc' = "stopped"
  /\ UNCHANGED << coordVars, readerVars, rx >>
  /\ UNCHANGED outerVars

\* tty.read returns Err (not Interrupted): send Error and stop
TtyError ==
  /\ upc = "read"
  /\ Running
  /\ ui_sent < MaxUi
  /\ Len(ui_rx) < UiChannelCap
  /\ ui_rx' = ChannelSend(ui_rx, UiErrorMsg)
  /\ ui_sent' = ui_sent + 1
  /\ upc' = "stopped"
  /\ UNCHANGED << coordVars, readerVars, rx >>
  /\ UNCHANGED outerVars

\* -------------------------------------------------------- coordinator
\* Mutant of saturating_add: the counter is not advanced.
saturating_add_stuck(a, b) == a

\* u64::saturating_add; u64::MAX lies beyond every count MaxLines allows
saturating_add(a, b) == a + b

\* Mutant of RecvLine: a pin whose line has left every buffer is dropped.
RecvLine_drops_evicted_pin ==
  /\ cpc = "lines"
  /\ rx # << >>
  /\ ChannelFront(rx).kind = "Line"
  /\ LET line == ChannelFront(rx).text
         applied == apply_line_to_tabs(tabs, active_index, paused, next_seq, line)
     IN /\ tabs' = applied
        /\ dispatched' = Append(dispatched, [seq |-> next_seq, text |-> line])
        /\ selected_line' =
             IF /\ IsSome(selected_line)
                /\ \A i \in DOMAIN applied : \A k \in 1..Len(applied[i].lines) :
                     applied[i].lines[k].seq # Unwrap(selected_line).seq
               THEN None ELSE selected_line
  /\ next_seq' = saturating_add(next_seq, 1)
  /\ dirty' = IF ~paused THEN TRUE ELSE dirty
  /\ rx' = ChannelRest(rx)
  /\ last_event' = "Other"
  /\ UNCHANGED << active_index, paused, pause_snapshot, last_size,
                  last_render_state, cpc, pause_buffers, pause_seq, readerVars, ttyVars, ui_rx >>
  /\ UNCHANGED outerVars

\* Mutant of RecvLine: a line sets dirty in paused mode too.
RecvLine_always_dirty ==
  /\ cpc = "lines"
  /\ rx # << >>
  /\ ChannelFront(rx).kind = "Line"
  /\ LET line == ChannelFront(rx).text
     IN /\ tabs' = apply_line_to_tabs(tabs, active_index, paused, next_seq, line)
        /\ dispatched' = Append(dispatched, [seq |-> next_seq, text |-> line])
  /\ next_seq' = saturating_add(next_seq, 1)
  /\ dirty' = TRUE
  /\ rx' = ChannelRest(rx)
  /\ last_event' = "Other"
  /\ UNCHANGED << active_index, selected_line, paused, pause_snapshot, last_size,
                  last_render_state, cpc, pause_buffers, pause_seq, readerVars, ttyVars, ui_rx >>
  /\ UNCHANGED outerVars

\* run: the line drain, InputMessage::Line
RecvLine ==
  /\ cpc = "lines"
  /\ rx # << >>
  /\ ChannelFront(rx).kind = "Line"
  /\ LET line == ChannelFront(rx).text
     IN /\ tabs' = apply_line_to_tabs(tabs, active_index, paused, next_seq, line)
        /\ dispatched' = Append(dispatched, [seq |-> next_seq, text |-> line])
  /\ next_seq' = saturating_add(next_seq, 1)
  /\ dirty' = IF ~paused THEN TRUE ELSE dirty
  /\ rx' = ChannelRest(rx)
  /\ last_event' = "Other"
  /\ UNCHANGED << active_index, selected_line, paused, pause_snapshot, last_size,
                  last_render_state, cpc, pause_buffers, pause_seq, readerVars, ttyVars, ui_rx >>
  /\ UNCHANGED outerVars

\* Mutant of RecvClosed: end of input ends the session like Quit.
RecvClosed_quits ==
  /\ cpc = "lines"
  /\ rx # << >>
  /\ ChannelFront(rx).kind = "Closed"
  /\ rx' = ChannelRest(rx)
  /\ cpc' = "quit"
  /\ last_event' = "Other"
  /\ UNCHANGED << tabs, active_index, next_seq, selected_line, dirty, paused,
                  pause_snapshot, last_size, last_render_state, dispatched,
                  pause_buffers, pause_seq, readerVars, ttyVars, ui_rx >>
  /\ LeaveLoop("Ok")
  /\ UNCHANGED << envVars, fnVars >>

\* run: the line drain, InputMessage::Closed
RecvClosed ==
  /\ cpc = "lines"
  /\ rx # << >>
  /\ ChannelFront(rx).kind = "Closed"
  /\ rx' = ChannelRest(rx)
  /\ last_event' = "Other"
  /\ UNCHANGED << tabs, active_index, next_seq, selected_line, dirty, paused,
                  pause_snapshot, last_size, last_render_state, cpc, dispatched,
                  pause_buffers, pause_seq, readerVars, ttyVars, ui_rx >>
  /\ UNCHANGED outerVars

\* run: the line drain, InputMessage::Error: return Err
RecvInputError ==
  /\ cpc = "lines"
  /\ rx # << >>
  /\ ChannelFront(rx).kind = "Error"
  /\ rx' = ChannelRest(rx)
  /\ cpc' = "failed"
  /\ last_event' = "Other"
  /\ UNCHANGED << tabs, active_index, next_seq, selected_line, dirty, paused,
                  pause_snapshot, last_size, last_render_state, dispatched,
                  pause_buffers, pause_seq, readerVars, ttyVars, ui_rx >>
  /\ LeaveLoop(ErrStdin)
  /\ UNCHANGED << envVars, fnVars >>

\* run: rx.try_recv() finds no message: the line drain ends
LinesDrained ==
  /\ cpc = "lines"
  /\ rx = << >>
  /\ cpc' = "ui"
  /\ UNCHANGED << tabs, active_index, next_seq, selected_line, dirty, paused,
                  pause_snapshot, last_size, last_render_state, dispatched,
                  pause_buffers, pause_seq, last_event, readerVars, ttyVars, rx, ui_rx >>
  /\ UNCHANGED outerVars

UiFront(kind) == cpc = "ui" /\ ui_rx # << >> /\ ChannelFront(ui_rx).kind = kind

\* run: UiMessage::NextTab
RecvNextTab ==
  /\ UiFront("NextTab")
  /\ LET next_index == (active_index + 1) % Cardinality(DOMAIN tabs)
         r == select_tab(tabs, active_index, next_index, paused, pause_snapshot)
     IN /\ tabs' = r.tabs
        /\ active_index' = r.active_index
        /\ last_event' = "Switch"
  /\ dirty' = TRUE
  /\ ui_rx' = ChannelRest(ui_rx)
  /\ UNCHANGED << next_seq, selected_line, paused, pause_snapshot, last_size,
                  last_render_state, cpc, dispatched, pause_buffers, pause_seq, readerVars,
                  ttyVars, rx >>
  /\ UNCHANGED outerVars

\* Mutant of RecvSelectTab: the arm does not test the index; select_tab
\* still returns early, but dirty is set.
RecvSelectTab_unchecked ==
  /\ UiFront("SelectTab")
  /\ LET tab_index == ChannelFront(ui_rx).index
         r == select_tab(tabs, active_index, tab_index, paused, pause_snapshot)
     IN IF TRUE
          THEN /\ tabs' = r.tabs
               /\ active_index' = r.active_index
               /\ dirty' = TRUE
               /\ last_event' = "Switch"
          ELSE /\ UNCHANGED << tabs, active_index, dirty >>
               /\ last_event' = "Other"
  /\ ui_rx' = ChannelRest(ui_rx)
  /\ UNCHANGED << next_seq, selected_line, paused, pause_snapshot, last_size,
                  last_render_state, cpc, dispatched, pause_buffers, pause_seq, readerVars,
                  ttyVars, rx >>
  /\ UNCHANGED outerVars

\* run: UiMessage::SelectTab
RecvSelectTab ==
  /\ UiFront("SelectTab")
  /\ LET tab_index == ChannelFront(ui_rx).index
         r == select_tab(tabs, active_index, tab_index, paused, pause_snapshot)
     IN IF tab_index < Cardinality(DOMAIN tabs)
          THEN /\ tabs' = r.tabs
               /\ active_index' = r.active_index
               /\ dirty' = TRUE
               /\ last_event' = "Switch"
          ELSE /\ UNCHANGED << tabs, active_index, dirty >>
               /\ last_event' = "Other"
  /\ ui_rx' = ChannelRest(ui_rx)
  /\ UNCHANGED << next_seq, selected_line, paused, pause_snapshot, last_size,
                  last_render_state, cpc, dispatched, pause_buffers, pause_seq, readerVars,
                  ttyVars, rx >>
  /\ UNCHANGED outerVars

\* Mutant of PauseSnapshotOf: the match cutoffs are taken from seen_matches.
PauseSnapshotOf_seen(ts) ==
  [line_cutoffs |-> [i \in DOMAIN ts |-> Len(ts[i].lines)],
   match_cutoffs |-> [i \in DOMAIN ts |-> ts[i].seen_matches]]

\* run: the PauseSnapshot built when pause is entered
PauseSnapshotOf(ts) ==
  [line_cutoffs |-> [i \in DOMAIN ts |-> Len(ts[i].lines)],
   match_cutoffs |-> [i \in DOMAIN ts |-> ts[i].total_matches]]

\* Mutant of toggle_pause: the snapshot is not dropped when pause is left.
toggle_pause_keeps_snapshot(ts, active, is_paused) ==
  LET now_paused == ~is_paused
      snapshot == Some(PauseSnapshotOf(ts))
  IN IF now_paused
       THEN [paused |-> TRUE,
             pause_snapshot |-> snapshot,
             tabs |-> mark_tab_seen_paused(ts, active, Unwrap(snapshot).match_cutoffs)]
       ELSE [paused |-> FALSE,
             pause_snapshot |-> snapshot,
             tabs |-> mark_tab_seen_live(ts, active)]

\* run: the body of the UiMessage::TogglePause arm: the new paused,
\* pause_snapshot and tabs
toggle_pause(ts, active, is_paused) ==
  LET now_paused == ~is_paused
      snapshot == Some(PauseSnapshotOf(ts))
  IN IF now_paused
       THEN [paused |-> TRUE,
             pause_snapshot |-> snapshot,
             tabs |-> IF IsSome(snapshot)
                        THEN mark_tab_seen_paused(ts, active, Unwrap(snapshot).match_cutoffs)
                        ELSE ts]
       ELSE [paused |-> FALSE,
             pause_snapshot |-> None,
             tabs |-> mark_tab_seen_live(ts, active)]

\* run: UiMessage::TogglePause
RecvTogglePause ==
  /\ UiFront("TogglePause")
  /\ LET r == toggle_pause(tabs, active_index, paused)
     IN /\ paused' = r.paused
        /\ pause_snapshot' = r.pause_snapshot
        /\ tabs' = r.tabs
  /\ IF ~paused
       THEN /\ pause_buffers' = [i \in DOMAIN tabs |-> tabs[i].lines]
            /\ pause_seq' = Len(dispatched)
            /\ last_event' = "PauseEntered"
       ELSE /\ pause_buffers' = [i \in DOMAIN tabs |-> << >>]
            /\ pause_seq' = 0
            /\ last_event' = "Other"
  /\ dirty' = TRUE
  /\ ui_rx' = ChannelRest(ui_rx)
  /\ UNCHANGED << active_index, next_seq, selected_line, last_size, last_render_state,
                  cpc, dispatched, readerVars, ttyVars, rx >>
  /\ UNCHANGED outerVars

\* run: UiMessage::ClearSelection
RecvClearSelection ==
  /\ UiFront("ClearSelection")
  /\ selected_line' = None
  /\ dirty' = IF IsSome(selected_line) THEN TRUE ELSE dirty
  /\ ui_rx' = ChannelRest(ui_rx)
  /\ last_event' = "Other"
  /\ UNCHANGED << tabs, active_index, next_seq, paused, pause_snapshot, last_size,
                  last_render_state, cpc, dispatched, pause_buffers, pause_seq, readerVars,
                  ttyVars, rx >>
  /\ UNCHANGED outerVars

\* run: UiMessage::SelectMiddleVisibleLine
RecvSelectMiddleVisibleLine ==
  /\ UiFront("SelectMiddleVisibleLine")
  /\ LET line == middle_visible_line(last_render_state)
     IN IF IsSome(line)
          THEN /\ selected_line' = toggle_selected_line(selected_line, Unwrap(line))
               /\ dirty' = TRUE
          ELSE UNCHANGED << selected_line, dirty >>
  /\ ui_rx' = ChannelRest(ui_rx)
  /\ last_event' = "Other"
  /\ UNCHANGED << tabs, active_index, next_seq, paused, pause_snapshot, last_size,
                  last_render_state, cpc, dispatched, pause_buffers, pause_seq, readerVars,
                  ttyVars, rx >>
  /\ UNCHANGED outerVars

\* Mutant of RecvMouseLeftDown: the press is resolved against the frame the
\* current model would draw.
RecvMouseLeftDown_current_model ==
  /\ UiFront("MouseLeftDown")
  /\ LET column == ChannelFront(ui_rx).column
         row == ChannelFront(ui_rx).row
         current == draw(tabs, active_index, paused,
                         IF IsSome(pause_snapshot)
                           THEN Some(Unwrap(pause_snapshot).line_cutoffs) ELSE None,
                         selected_line, last_size)
         hit == tab_index_at_position(current, column, row)
         line == line_at_row(current, row)
     IN IF IsSome(hit)
          THEN LET r == select_tab(tabs, active_index, Unwrap(hit), paused, pause_snapshot)
               IN /\ tabs' = r.tabs
                  /\ active_index' = r.active_index
                  /\ dirty' = TRUE
                  /\ last_event' = "Switch"
                  /\ UNCHANGED selected_line
          ELSE IF IsSome(line)
            THEN /\ selected_line' = toggle_selected_line(selected_line, Unwrap(line))
                 /\ dirty' = TRUE
                 /\ last_event' = "Other"
                 /\ UNCHANGED << tabs, active_index >>
            ELSE /\ last_event' = "Other"
                 /\ UNCHANGED << tabs, active_index, selected_line, dirty >>
  /\ ui_rx' = ChannelRest(ui_rx)
  /\ UNCHANGED << next_seq, paused, pause_snapshot, last_size, last_render_state, cpc,
                  dispatched, pause_buffers, pause_seq, readerVars, ttyVars, rx >>
  /\ UNCHANGED outerVars

\* run: UiMessage::MouseLeftDown
RecvMouseLeftDown ==
  /\ UiFront("MouseLeftDown")
  /\ LET column == ChannelFront(ui_rx).column
         row == ChannelFront(ui_rx).row
         hit == tab_index_at_position(last_render_state, column, row)
         line == line_at_row(last_render_state, row)
     IN IF IsSome(hit)
          THEN LET r == select_tab(tabs, active_index, Unwrap(hit), paused, pause_snapshot)
               IN /\ tabs' = r.tabs
                  /\ active_index' = r.active_index
                  /\ dirty' = TRUE
                  /\ last_event' = "Switch"
                  /\ UNCHANGED selected_line
          ELSE IF IsSome(line)
            THEN /\ selected_line' = toggle_selected_line(selected_line, Unwrap(line))
                 /\ dirty' = TRUE
                 /\ last_event' = "Other"
                 /\ UNCHANGED << tabs, active_index >>
            ELSE /\ last_event' = "Other"
                 /\ UNCHANGED << tabs, active_index, selected_line, dirty >>
  /\ ui_rx' = ChannelRest(ui_rx)
  /\ UNCHANGED << next_seq, paused, pause_snapshot, last_size, last_render_state, cpc,
                  dispatched, pause_buffers, pause_seq, readerVars, ttyVars, rx >>
  /\ UNCHANGED outerVars

\* run: UiMessage::Quit: break 'app
RecvQuit ==
  /\ UiFront("Quit")
  /\ ui_rx' = ChannelRest(ui_rx)
  /\ cpc' = "quit"
  /\ last_event' = "Other"
  /\ UNCHANGED << tabs, active_index, next_seq, selected_line, dirty, paused,
                  pause_snapshot, last_size, last_render_state, dispatched,
                  pause_buffers, pause_seq, readerVars, ttyVars, rx >>
  /\ LeaveLoop("Ok")
  /\ UNCHANGED << envVars, fnVars >>

\* run: UiMessage::Error: return Err
RecvUiError ==
  /\ UiFront("Error")
  /\ ui_rx' = ChannelRest(ui_rx)
  /\ cpc' = "failed"
  /\ last_event' = "Other"
  /\ UNCHANGED << tabs, active_index, next_seq, selected_line, dirty, paused,
                  pause_snapshot, last_size, last_render_state, dispatched,
                  pause_buffers, pause_seq, readerVars, ttyVars, rx >>
  /\ LeaveLoop(ErrTty)
  /\ UNCHANGED << envVars, fnVars >>

\* run: ui_rx.try_recv() finds no message: the UI drain ends, and the
\* terminal::size() check follows
UiDrained ==
  /\ cpc = "ui"
  /\ ui_rx = << >>
  /\ \E current_size \in TermSizes :
       IF current_size # last_size
         THEN last_size' = current_size /\ dirty' = TRUE
         ELSE UNCHANGED << last_size, dirty >>
  /\ cpc' = "draw"
  /\ UNCHANGED << tabs, active_index, next_seq, selected_line, paused, pause_snapshot,
                  last_render_state, dispatched, pause_buffers, pause_seq, last_event, readerVars,
                  ttyVars, rx, ui_rx >>
  /\ UNCHANGED outerVars

\* run: if dirty, draw; then sleep
Draw ==
  /\ cpc = "draw"
  /\ dirty
  /\ \E size \in TermSizes :
       last_render_state' =
         draw(tabs, active_index, paused,
              IF IsSome(pause_snapshot) THEN Some(Unwrap(pause_snapshot).line_cutoffs)
                                        ELSE None,
              selected_line, size)
  /\ dirty' = FALSE
  /\ cpc' = "lines"
  /\ UNCHANGED << tabs, active_index, next_seq, selected_line, paused, pause_snapshot,
                  last_size, dispatched, pause_buffers, pause_seq, last_event, readerVars, ttyVars,
                  rx, ui_rx >>
  /\ UNCHANGED outerVars

\* run: dirty, and draw returns Err (terminal::size, queue! or flush fails):
\* return Err
DrawFails ==
  /\ cpc = "draw"
  /\ dirty
  /\ cpc' = "failed"
  /\ LeaveLoop(ErrTerminal)
  /\ UNCHANGED << tabs, active_index, next_seq, selected_line, dirty, paused,
                  pause_snapshot, last_size, last_render_state, dispatched,
                  pause_buffers, pause_seq, last_event, readerVars, ttyVars, rx, ui_rx >>
  /\ UNCHANGED << envVars, fnVars >>

\* run: not dirty, no draw; sleep
SkipDraw ==
  /\ cpc = "draw"
  /\ ~dirty
  /\ cpc' = "lines"
  /\ UNCHANGED << tabs, active_index, next_seq, selected_line, dirty, paused,
                  pause_snapshot, last_size, last_render_state, dispatched,
                  pause_buffers, pause_seq, last_event, readerVars, ttyVars, rx, ui_rx >>
  /\ UNCHANGED outerVars

Next ==
  \/ ReaderRead \/ ReaderSend \/ ReaderEof \/ ReaderError \/ ReaderSendFails
  \/ TtySend \/ TtyEof \/ TtyError
  \/ RecvLine \/ RecvClosed \/ RecvInputError \/ LinesDrained
  \/ RecvNextTab \/ RecvSelectTab \/ RecvTogglePause \/ RecvClearSelection
  \/ RecvSelectMiddleVisibleLine \/ RecvMouseLeftDown \/ RecvQuit \/ RecvUiError
  \/ UiDrained \/ Draw \/ DrawFails \/ SkipDraw

Spec == Init /\ [][Next]_vars

\* ---------------------------------------------------- apply_line_to_tabs
\* The filters and the lines of SpecAccept: a two-character filter, lines
\* that hold its characters apart, in the other order and in the other case,
\* and the empty line.
AcceptFilters == << <<"a", "b">>, <<"b">> >>
AcceptLines ==
  { << >>, <<"a">>, <<"b">>, <<"B">>, <<"a", "b">>, <<"b", "a">>, <<"A", "b">>,
    <<"a", "B">>, <<"a", "c", "b">>, <<"c", "a", "b">>, <<"a", "a">> }

\* run: the state when the event loop is entered with AcceptFilters, or
\* after the keys that select a tab and toggle pause before any line arrives
AcceptInit ==
  /\ tabs = [i \in 0..Len(AcceptFilters) |->
               IF i = 0 THEN TabUnfiltered ELSE TabNew(AcceptFilters[i])]
  /\ active_index \in 0..Len(AcceptFilters)
  /\ next_seq = 0
  /\ selected_line = None
  /\ dirty = TRUE
  /\ paused \in BOOLEAN
  /\ pause_snapshot = IF paused THEN Some(PauseSnapshotOf(tabs)) ELSE None
  /\ last_size \in TermSizes
  /\ last_render_state = RenderStateDefault
  /\ rx = << >>
  /\ ui_rx = << >>
  /\ cpc = "lines"
  /\ rpc = "read"
  /\ buf = << >>
  /\ upc = "read"
  /\ stdin_read = << >>
  /\ dispatched = << >>
  /\ ui_sent = 0
  /\ pause_buffers = [i \in 0..Len(AcceptFilters) |-> << >>]
  /\ pause_seq = 0
  /\ last_event = "Other"
  /\ terminal = TerminalGuardEnter({ })
  /\ run_result = None
  /\ exit_code = None
  /\ stderr = << >>
  /\ args = AcceptFilters
  /\ stdout_is_terminal = TRUE
  /\ arg = << >>
  /\ res = << >>

\* run: the InputMessage::Line arm applied to a line of AcceptLines
AcceptLine ==
  /\ Len(dispatched) < MaxAccepts
  /\ \E line \in AcceptLines :
       /\ tabs' = apply_line_to_tabs(tabs, active_index, paused, next_seq, line)
       /\ dispatched' = Append(dispatched, [seq |-> next_seq, text |-> line])
  /\ next_seq' = saturating_add(next_seq, 1)
  /\ dirty' = IF ~paused THEN TRUE ELSE dirty
  /\ UNCHANGED << active_index, selected_line, paused, pause_snapshot, last_size,
                  last_render_state, cpc, pause_buffers, pause_seq, last_event,
                  readerVars, ttyVars, rx, ui_rx >>
  /\ UNCHANGED outerVars

AcceptNext == AcceptLine

SpecAccept == AcceptInit /\ [][AcceptNext]_vars

\* --------------------------------------------------- toggle_selected_line
\* The rendered lines of SpecToggle: three lines, two of them with one text,
\* each as the frame shows it selected or not.
ToggleLines ==
  { [seq |-> l[1], text |-> l[2], selected |-> sel] :
      l \in { <<0, <<"a">>>>, <<1, <<"b">>>>, <<2, <<"a">>>> }, sel \in BOOLEAN }

\* arg: the lines toggled so far; res: selected_line, initially None
ToggleInit ==
  /\ LoopEntered
  /\ arg = << >>
  /\ res = None

\* toggle_selected_line(&mut selected_line, line)
Toggle ==
  /\ Len(arg) < MaxToggles
  /\ \E line \in ToggleLines :
       /\ res' = toggle_selected_line(res, line)
       /\ arg' = Append(arg, line)
  /\ UNCHANGED progVars

ToggleNext == Toggle

SpecToggle == ToggleInit /\ [][ToggleNext]_vars

\* ------------------------------------------------ counters at u64 width
\* A u64 is four 16-bit limbs, the most significant first.
U64_LIMB == 65536
U64_ZERO == << 0, 0, 0, 0 >>
U64_MAX == << U64_LIMB - 1, U64_LIMB - 1, U64_LIMB - 1, U64_LIMB - 1 >>
\* u64::MAX - k, for k < U64_LIMB
U64FromMax(k) == [U64_MAX EXCEPT ![4] = U64_LIMB - 1 - k]

\* a < b
u64_lt(a, b) ==
  \E p \in 1..4 : a[p] < b[p] /\ \A q \in 1..(p - 1) : a[q] = b[q]

\* u64::min
u64_min(a, b) == IF u64_lt(b, a) THEN b ELSE a

\* a + 1 modulo 2^64
u64_wrapping_add_one(a) ==
  IF a[4] < U64_LIMB - 1 THEN [a EXCEPT ![4] = a[4] + 1]
  ELSE IF a[3] < U64_LIMB - 1 THEN [a EXCEPT ![3] = a[3] + 1, ![4] = 0]
  ELSE IF a[2] < U64_LIMB - 1 THEN [a EXCEPT ![2] = a[2] + 1, ![3] = 0, ![4] = 0]
  ELSE IF a[1] < U64_LIMB - 1 THEN << a[1] + 1, 0, 0, 0 >>
  ELSE U64_ZERO

\* u64::saturating_add(a, 1)
u64_saturating_add_one(a) == IF a = U64_MAX THEN U64_MAX ELSE u64_wrapping_add_one(a)

\* `x += 1` on a u64: with overflow checks (the debug profile) it panics at
\* u64::MAX, without them (the release profile) it wraps
u64_add_assign_one(a, overflow_checks) ==
  IF a = U64_MAX /\ overflow_checks
    THEN [value |-> a, panic |-> TRUE]
    ELSE [value |-> u64_wrapping_add_one(a), panic |-> FALSE]

\* Tab::mark_seen_through on u64 counters
mark_seen_through_u64(c, max_match_index) ==
  LET capped == u64_min(max_match_index, c.total_matches)
  IN IF u64_lt(c.seen_matches, capped) THEN [c EXCEPT !.seen_matches = capped] ELSE c

\* arg: the build's overflow checks, whether the tab is the active one in
\* live mode, and the counters at the start; res: next_seq and one tab's
\* counters, whether the coordinator panicked, and the lines dispatched.  At
\* the start u64::MAX - k lines have been dispatched, of which some did not
\* match the tab and some matches are unseen.
CountersInit ==
  /\ LoopEntered
  /\ \E k, j, u \in 0..CounterHeadroom :
     \E checks, live \in BOOLEAN :
       LET c == [next_seq |-> U64FromMax(k),
                 total_matches |-> U64FromMax(k + j),
                 seen_matches |-> IF live THEN U64FromMax(k + j)
                                          ELSE U64FromMax(k + j + u)]
       IN /\ arg = [overflow_checks |-> checks, active_live |-> live, start |-> c]
          /\ res = [next_seq |-> c.next_seq, total_matches |-> c.total_matches,
                    seen_matches |-> c.seen_matches, panicked |-> FALSE,
                    dispatches |-> 0]

\* run: a line that matches the tab is dispatched: push_line
\* (total_matches += 1), mark_seen_through for the active tab in live mode,
\* then next_seq.saturating_add(1)
CountersMatch ==
  /\ ~res.panicked
  /\ res.dispatches < MaxDispatches
  /\ LET added == u64_add_assign_one(res.total_matches, arg.overflow_checks)
         pushed == [res EXCEPT !.total_matches = added.value]
         marked == IF arg.active_live
                     THEN mark_seen_through_u64(pushed, pushed.total_matches)
                     ELSE pushed
     IN res' = IF added.panic
                 THEN [res EXCEPT !.panicked = TRUE]
                 ELSE [marked EXCEPT !.next_seq = u64_saturating_add_one(res.next_seq),
                                     !.dispatches = res.dispatches + 1]
  /\ UNCHANGED << arg, progVars >>

\* run: a line that does not match the tab is dispatched
CountersNoMatch ==
  /\ ~res.panicked
  /\ res.dispatches < MaxDispatches
  /\ res' = [res EXCEPT !.next_seq = u64_saturating_add_one(res.next_seq),
                        !.dispatches = res.dispatches + 1]
  /\ UNCHANGED << arg, progVars >>

CountersNext == CountersMatch \/ CountersNoMatch

SpecCounters == CountersInit /\ [][CountersNext]_vars

\* ----------------------------------------------------------- InputParser
\* Bytes are one-character strings, 0x1b is "ESC".  The decimal digits, in
\* order; FinalBytes are the bytes of 0x40..=0x7e among those fed.
Digits == << "0", "1", "2", "3", "4", "5", "6", "7", "8", "9" >>
FinalBytes == { "M", "m", "[", "d", "D", "s", "S", "q", "Q" }

\* format!("{}", n) of an unsigned integer
RECURSIVE Decimal(_)
Decimal(n) ==
  IF n < 10 THEN << Digits[n + 1] >> ELSE Decimal(n \div 10) \o << Digits[(n % 10) + 1] >>

\* str::parse::<u16> of a string of bytes with acc parsed so far: None for
\* the empty string, for a byte that is no digit and for a value above
\* u16::MAX
RECURSIVE parse_u16(_, _, _)
parse_u16(str, k, acc) ==
  IF Len(str) = 0 THEN None
  ELSE IF k > Len(str) THEN Some(acc)
  ELSE IF \A d \in 1..10 : Digits[d] # str[k] THEN None
  ELSE LET d == CHOOSE d \in 1..10 : Digits[d] = str[k]
           next == acc * 10 + (d - 1)
       IN IF next > 65535 THEN None ELSE parse_u16(str, k + 1, next)

\* str::split(';'): the parts of payload from position k on, cur being the
\* part under way
RECURSIVE split(_, _, _)
split(payload, k, cur) ==
  IF k > Len(payload) THEN << cur >>
  ELSE IF payload[k] = ";" THEN << cur >> \o split(payload, k + 1, << >>)
  ELSE split(payload, k + 1, Append(cur, payload[k]))

\* Mutant of try_parse_sgr_mouse_message: the motion bit is not looked at.
try_parse_sgr_mouse_message_motion(sequence) ==
  LET n == Len(sequence)
      params == SubSeq(sequence, 1, n - 1)
      parts == split(SubSeq(params, 2, Len(params)), 1, << >>)
      cb == IF Len(parts) >= 1 THEN parse_u16(parts[1], 1, 0) ELSE None
      col == IF Len(parts) >= 2 THEN parse_u16(parts[2], 1, 0) ELSE None
      row == IF Len(parts) >= 3 THEN parse_u16(parts[3], 1, 0) ELSE None
      is_left_button == Unwrap(cb) % 4 = 0
      is_wheel == (Unwrap(cb) \div 64) % 2 # 0
  IN IF n = 0 THEN None
     ELSE IF sequence[n] # "M" \/ Len(params) = 0 \/ params[1] # "<" THEN None
     ELSE IF ~IsSome(cb) \/ ~IsSome(col) \/ ~IsSome(row) THEN None
     ELSE IF Len(parts) > 3 THEN None
     ELSE IF is_left_button /\ ~is_wheel
       THEN Some(MouseLeftDownMsg(Max(Unwrap(col) - 1, 0), Max(Unwrap(row) - 1, 0)))
       ELSE None

\* try_parse_sgr_mouse_message
try_parse_sgr_mouse_message(sequence) ==
  LET n == Len(sequence)
      params == SubSeq(sequence, 1, n - 1)
      parts == split(SubSeq(params, 2, Len(params)), 1, << >>)
      cb == IF Len(parts) >= 1 THEN parse_u16(parts[1], 1, 0) ELSE None
      col == IF Len(parts) >= 2 THEN parse_u16(parts[2], 1, 0) ELSE None
      row == IF Len(parts) >= 3 THEN parse_u16(parts[3], 1, 0) ELSE None
      is_left_button == Unwrap(cb) % 4 = 0
      is_motion == (Unwrap(cb) \div 32) % 2 # 0
      is_wheel == (Unwrap(cb) \div 64) % 2 # 0
  IN IF n = 0 THEN None
     ELSE IF sequence[n] # "M" \/ Len(params) = 0 \/ params[1] # "<" THEN None
     ELSE IF ~IsSome(cb) \/ ~IsSome(col) \/ ~IsSome(row) THEN None
     ELSE IF Len(parts) > 3 THEN None
     ELSE IF is_left_button /\ ~is_motion /\ ~is_wheel
       THEN Some(MouseLeftDownMsg(Max(Unwrap(col) - 1, 0), Max(Unwrap(row) - 1, 0)))
       ELSE None

\* key_message_from_byte
key_message_from_byte(byte) ==
  IF byte = "\t" THEN Some(NextTabMsg)
  ELSE IF \E d \in 1..10 : Digits[d] = byte
    THEN Some(SelectTabMsg((CHOOSE d \in 1..10 : Digits[d] = byte) - 1))
  ELSE IF byte = " " THEN Some(TogglePauseMsg)
  ELSE IF byte \in { "d", "D" } THEN Some(ClearSelectionMsg)
  ELSE IF byte \in { "s", "S" } THEN Some(SelectMiddleMsg)
  ELSE IF byte \in { "q", "Q", "ETX" } THEN Some(QuitMsg)
  ELSE None

\* Mutant of feed: the byte after ESC is looked up as a key.
feed_esc_key(parser, byte) ==
  IF parser.state = "Ground"
    THEN IF byte = "ESC"
           THEN [parser |-> [state |-> "Esc", buf |-> << >>], message |-> None]
           ELSE [parser |-> parser, message |-> key_message_from_byte(byte)]
  ELSE IF parser.state = "Esc"
    THEN [parser |-> [state |-> IF byte = "[" THEN "Csi" ELSE "Ground", buf |-> << >>],
          message |-> key_message_from_byte(byte)]
  ELSE IF byte \notin FinalBytes
    THEN [parser |-> [parser EXCEPT !.buf = Append(parser.buf, byte)], message |-> None]
  ELSE [parser |-> [state |-> "Ground", buf |-> << >>],
        message |-> try_parse_sgr_mouse_message(Append(parser.buf, byte))]

\* InputParser::feed: the new parser [state, buf] and the message returned
feed(parser, byte) ==
  IF parser.state = "Ground"
    THEN IF byte = "ESC"
           THEN [parser |-> [state |-> "Esc", buf |-> << >>], message |-> None]
           ELSE [parser |-> parser, message |-> key_message_from_byte(byte)]
  ELSE IF parser.state = "Esc"
    THEN [parser |-> [state |-> IF byte = "[" THEN "Csi" ELSE "Ground", buf |-> << >>],
          message |-> None]
  ELSE IF byte \notin FinalBytes
    THEN [parser |-> [parser EXCEPT !.buf = Append(parser.buf, byte)], message |-> None]
  ELSE [parser |-> [state |-> "Ground", buf |-> << >>],
        message |-> try_parse_sgr_mouse_message(Append(parser.buf, byte))]

\* The mouse reports of SpecParser, <<Cb, Col, Row>>: buttons, modifier,
\* motion and wheel bits in Cb; coordinates 0, 1, in range, u16::MAX and above.
ParserReports ==
  { 0, 1, 2, 3, 4, 8, 32, 35, 64, 65, 128, 65535, 65536 }
    \X { 0, 1, 12, 65535, 65536 } \X { 0, 1, 7, 65536 }

\* arg: an SGR mouse report and its bytes ESC [ < Cb ; Col ; Row M; res: the
\* parser of spawn_ui_reader (InputParser::new: Ground), the number of bytes
\* fed and what feed returned for each
ParserInit ==
  /\ LoopEntered
  /\ \E r \in ParserReports :
       arg = [report |-> r,
              bytes |-> << "ESC", "[", "<" >> \o Decimal(r[1]) \o << ";" >>
                          \o Decimal(r[2]) \o << ";" >> \o Decimal(r[3]) \o << "M" >>]
  /\ res = [parser |-> [state |-> "Ground", buf |-> << >>], returned |-> << >>]

\* spawn_ui_reader: parser.feed(*byte) on the next byte read
Feed ==
  /\ Len(res.returned) < Len(arg.bytes)
  /\ LET r == feed(res.parser, arg.bytes[Len(res.returned) + 1])
     IN res' = [parser |-> r.parser, returned |-> Append(res.returned, r.message)]
  /\ UNCHANGED << arg, progVars >>

ParserNext == Feed

SpecParser == ParserInit /\ [][ParserNext]_vars

\* SpecBytes feeds the parser every concatenation of up to MaxChunks of these
\* pieces: ESC, "[", mapped keys, a digit, the final M and the payload of a
\* left press.
MaxChunks == 4
ByteChunks ==
  { << "ESC" >>, << "[" >>, << "q" >>, << "\t" >>, << "0" >>, << "M" >>,
    << "<", "0", ";", "1", ";", "1" >> }

RECURSIVE FedBytes(_)
FedBytes(n) ==
  IF n = 0 THEN { << >> }
  ELSE LET shorter == FedBytes(n - 1)
       IN shorter \cup { t \o c : t \in shorter, c \in ByteChunks }

\* arg: the bytes tty.read delivers; res: the parser of spawn_ui_reader
\* (InputParser::new: Ground) and what feed returned for each byte fed
BytesInit ==
  /\ LoopEntered
  /\ \E bytes \in FedBytes(MaxChunks) : arg = [bytes |-> bytes]
  /\ res = [parser |-> [state |-> "Ground", buf |-> << >>], returned |-> << >>]

SpecBytes == BytesInit /\ [][ParserNext]_vars

\* ---------------------------------------------------------- ANSI clipping
\* Characters are code points.  The texts of SpecClip are made of ESC
\* (0x1b), "0" (no final byte), "[" and "m" (final bytes), up to MaxTextLen
\* characters, and are clipped to widths up to MaxWidth.
MaxTextLen == 5
MaxWidth == 3
AnsiChars == { 27, 48, 91, 109 }

\* is_ansi_final_byte: '@'..='~'
is_ansi_final_byte(ch) == 64 <= ch /\ ch <= 126

\* clip_to_width
clip_to_width(text, width) ==
  IF width = 0 THEN << >> ELSE SubSeq(text, 1, Min(width, Len(text)))

\* text begins with ESC: the position of the last character the loops of
\* clip_ansi_to_visible_width and strip_ansi consume with it: the ESC itself
\* at the end of text, the next character if that is not "[", otherwise the
\* first final byte after the "[", or the end of text if there is none.
escape_end(text) ==
  IF Len(text) = 1 THEN 1
  ELSE IF text[2] # 91 THEN 2
  ELSE IF \E k \in 3..Len(text) : is_ansi_final_byte(text[k])
    THEN CHOOSE k \in 3..Len(text) :
           /\ is_ansi_final_byte(text[k])
           /\ \A j \in 3..(k - 1) : ~is_ansi_final_byte(text[j])
    ELSE Len(text)

\* The while loop of clip_ansi_to_visible_width on the rest of the text, with
\* room = width - visible, and the reset appended when it breaks.
RECURSIVE clip_ansi_rest(_, _, _)
clip_ansi_rest(text, room, saw_ansi) ==
  IF Len(text) = 0 THEN << >>
  ELSE IF Head(text) = 27
    THEN SubSeq(text, 1, escape_end(text))
           \o clip_ansi_rest(SubSeq(text, escape_end(text) + 1, Len(text)), room, TRUE)
  ELSE IF room = 0 THEN (IF saw_ansi THEN << 27, 91, 48, 109 >> ELSE << >>)
  ELSE << Head(text) >> \o clip_ansi_rest(Tail(text), room - 1, saw_ansi)

\* Mutant of clip_ansi_to_visible_width: the characters of escape sequences
\* count toward the width.
clip_ansi_to_visible_width_raw(text, width) == clip_to_width(text, width)

\* clip_ansi_to_visible_width
clip_ansi_to_visible_width(text, width) ==
  IF width = 0 THEN << >> ELSE clip_ansi_rest(text, width, FALSE)

\* strip_ansi
RECURSIVE strip_ansi(_)
strip_ansi(text) ==
  IF Len(text) = 0 THEN << >>
  ELSE IF Head(text) = 27
    THEN strip_ansi(SubSeq(text, escape_end(text) + 1, Len(text)))
  ELSE << Head(text) >> \o strip_ansi(Tail(text))

\* arg: a line text and a width; res: nothing clipped yet
ClipInit ==
  /\ LoopEntered
  /\ \E n \in 0..MaxTextLen : \E text \in [1..n -> AnsiChars] : \E width \in 0..MaxWidth :
       arg = [text |-> text, width |-> width]
  /\ res = << >>

\* draw: a body row clips its line with clip_ansi_to_visible_width
Clip ==
  /\ res = << >>
  /\ res' = << clip_ansi_to_visible_width(arg.text, arg.width) >>
  /\ UNCHANGED << arg, progVars >>

ClipNext == Clip

SpecClip == ClipInit /\ [][ClipNext]_vars

\* ------------------------------------------------------------- main, run
\* The argument lists of SpecMain: none, one empty argument, the filters.
ArgLists == { << >>, << << >> >>, Filters }

\* run: std::env::args().skip(1).filter(|f| !f.is_empty())
filters_of(a) == SelectSeq(a, LAMBDA f : Len(f) > 0)

\* The process when main calls run: nothing constructed, no thread spawned,
\* no terminal mode held
MainInit ==
  /\ tabs = << >>
  /\ active_index = 0
  /\ next_seq = 0
  /\ selected_line = None
  /\ dirty = TRUE
  /\ paused = FALSE
  /\ pause_snapshot = None
  /\ last_size \in TermSizes
  /\ last_render_state = RenderStateDefault
  /\ rx = << >>
  /\ ui_rx = << >>
  /\ cpc = "start"
  /\ rpc = "unspawned"
  /\ buf = << >>
  /\ upc = "unspawned"
  /\ stdin_read = << >>
  /\ dispatched = << >>
  /\ ui_sent = 0
  /\ pause_buffers = << >>
  /\ pause_seq = 0
  /\ last_event = "Other"
  /\ terminal = { }
  /\ run_result = None
  /\ exit_code = None
  /\ stderr = << >>
  /\ args \in ArgLists
  /\ stdout_is_terminal \in BOOLEAN
  /\ arg = << >>
  /\ res = << >>

startVars == << active_index, next_seq, selected_line, dirty, paused, pause_snapshot,
               last_size, last_render_state, rx, ui_rx, buf, stdin_read, dispatched,
               ui_sent, pause_seq, last_event, envVars, fnVars >>

\* run: stdout is not a terminal, return Err; main: exit(1)
StartNotTty ==
  /\ cpc = "start"
  /\ ~stdout_is_terminal
  /\ cpc' = "failed"
  /\ run_result' = Some(ErrNotTty)
  /\ exit_code' = Some(main_exit_code(ErrNotTty))
  /\ stderr' = stderr \o main_stderr(ErrNotTty)
  /\ UNCHANGED << tabs, pause_buffers, rpc, upc, terminal, startVars >>

\* run: no non-empty filter, print_usage and exit(2)
StartUsage ==
  /\ cpc = "start"
  /\ stdout_is_terminal
  /\ Len(filters_of(args)) = 0
  /\ cpc' = "usage"
  /\ exit_code' = Some(2)
  /\ stderr' = Append(stderr, << "Usage" >>)
  /\ UNCHANGED << tabs, pause_buffers, rpc, upc, terminal, run_result, startVars >>

\* run: spawn_ui_reader(ui_tx)? cannot open /dev/tty, or
\* TerminalGuard::enter(&mut stdout)? fails after acquiring the modes held:
\* return Err with no guard to drop; main: exit(1)
StartFails ==
  /\ cpc = "start"
  /\ stdout_is_terminal
  /\ Len(filters_of(args)) > 0
  /\ \E err \in { ErrTty, ErrTerminal } :
       /\ \E held \in SUBSET TerminalModes :
            /\ err = ErrTty => held = { }
            /\ terminal' = held
       /\ run_result' = Some(err)
       /\ exit_code' = Some(main_exit_code(err))
       /\ stderr' = stderr \o main_stderr(err)
  /\ cpc' = "failed"
  /\ UNCHANGED << tabs, pause_buffers, rpc, upc, startVars >>

\* run: the tabs are made, the two readers spawned and the terminal
\* entered: the event loop begins
StartLoop ==
  /\ cpc = "start"
  /\ stdout_is_terminal
  /\ Len(filters_of(args)) > 0
  /\ LET filters == filters_of(args)
     IN /\ tabs' = [i \in 0..Len(filters) |->
                      IF i = 0 THEN TabUnfiltered ELSE TabNew(filters[i])]
        /\ pause_buffers' = [i \in 0..Len(filters) |-> << >>]
  /\ rpc' = "read"
  /\ upc' = "read"
  /\ terminal' = TerminalGuardEnter(terminal)
  /\ cpc' = "lines"
  /\ UNCHANGED << exitVars, startVars >>

MainNext == StartNotTty \/ StartUsage \/ StartFails \/ StartLoop \/ Next

SpecMain == MainInit /\ [][MainNext]_vars

\* ------------------------------------------------------ draw: the body
\* SpecView draws the body of one tab whose buffer holds any of the seqs
\* 0..MaxSeqs-1 in increasing order, on terminals of 0..3+MaxBodyHeight rows.
MaxSeqs == 4
MaxBodyHeight == 4

\* arg: what draw is called with, and the size terminal::size() gives it:
\* live with no cutoffs or paused with a cutoff up to the buffer's length, no
\* pin or a pin on any seq; res: nothing drawn yet
ViewInit ==
  /\ LoopEntered
  /\ \E held \in SUBSET (0..(MaxSeqs - 1)) :
     \E is_paused \in BOOLEAN :
     \E cutoff \in 0..Cardinality(held) :
     \E selected \in { None } \cup { Some([seq |-> q, text |-> << "a" >>]) : q \in 0..(MaxSeqs - 1) } :
     \E rows \in 0..(3 + MaxBodyHeight) :
       /\ ~is_paused => cutoff = 0
       /\ arg = [tab |-> [TabUnfiltered EXCEPT
                            !.lines = SelectSeq([k \in 1..MaxSeqs |->
                                                   [seq |-> k - 1, text |-> << "a" >>]],
                                                LAMBDA l : l.seq \in held),
                            !.total_matches = MaxSeqs,
                            !.seen_matches = MaxSeqs],
                 is_paused |-> is_paused,
                 pause_line_cutoffs |->
                   IF is_paused THEN Some([i \in { 0 } |-> cutoff]) ELSE None,
                 selected |-> selected,
                 size |-> << 40, rows >>]
  /\ res = << >>

\* draw, from body_start_row on: the spliced list and the viewport (None
\* when draw returns before the body), the tab as draw leaves it, and the
\* line_rows of the RenderState returned
ViewDraw ==
  /\ res = << >>
  /\ LET ts == [i \in { 0 } |-> arg.tab]
         rows == arg.size[2]
         body_start_row == IF rows >= 3 THEN 3 ELSE 2
         visible_lines == prepare_visible_lines(arg.tab,
                            cutoff_len(ts, 0, arg.pause_line_cutoffs), arg.selected)
     IN res' = [body_start_row |-> body_start_row,
                visible_lines |->
                  IF rows <= body_start_row THEN None ELSE Some(visible_lines),
                viewport |->
                  IF rows <= body_start_row THEN None
                  ELSE Some(viewport_for_lines(body_start_row, rows - body_start_row,
                                               visible_lines, arg.is_paused)),
                tab |-> ts[0],
                line_rows |-> draw_line_rows(ts, 0, arg.is_paused, arg.pause_line_cutoffs,
                                             arg.selected, arg.size)]
  /\ UNCHANGED << arg, progVars >>

SpecView == ViewInit /\ [][ViewDraw]_vars

\* ------------------------------------------------- an endless line producer
\* SpecQuit runs the event loop against a stdin that never ends.  So that
\* the states stay finite, the two steps that handle a line keep what no
\* condition of the loop reads as it is: the histories, next_seq and the tabs.
\* Everything the loop's control depends on (the two channels, the position in
\* run, dirty, paused) changes as in the program.

\* spawn_input_reader: read_line returns Ok(n > 0), any number of times
ReaderReadEndless ==
  /\ rpc = "read"
  /\ Running
  /\ \E raw \in RawLines : buf' = TrimLine(raw)
  /\ rpc' = "send"
  /\ UNCHANGED << coordVars, ttyVars, stdin_read, rx, ui_rx >>
  /\ UNCHANGED outerVars

\* run: the line drain, InputMessage::Line: the message is taken off the
\* channel and dirty is set unless paused
DrainLine ==
  /\ cpc = "lines"
  /\ rx # << >>
  /\ ChannelFront(rx).kind = "Line"
  /\ dirty' = IF ~paused THEN TRUE ELSE dirty
  /\ rx' = ChannelRest(rx)
  /\ last_event' = "Other"
  /\ UNCHANGED << tabs, next_seq, dispatched, active_index, selected_line, paused,
                  pause_snapshot, last_size, last_render_state, cpc, pause_buffers,
                  pause_seq, readerVars, ttyVars, ui_rx >>
  /\ UNCHANGED outerVars

\* run: a step of the coordinator thread
CoordinatorStep ==
  \/ DrainLine \/ RecvClosed \/ RecvInputError \/ LinesDrained
  \/ RecvNextTab \/ RecvSelectTab \/ RecvTogglePause \/ RecvClearSelection
  \/ RecvSelectMiddleVisibleLine \/ RecvMouseLeftDown \/ RecvQuit \/ RecvUiError
  \/ UiDrained \/ Draw \/ DrawFails \/ SkipDraw

\* The reader threads' steps
ProducerStep ==
  \/ ReaderReadEndless \/ ReaderSend \/ ReaderEof \/ ReaderError \/ ReaderSendFails
  \/ TtySend \/ TtyEof \/ TtyError

QuitNext == CoordinatorStep \/ ProducerStep

\* The coordinator never blocks (try_recv, a bounded sleep), so it is
\* scheduled fairly; nothing is assumed of the readers.
SpecQuit == Init /\ [][QuitNext]_vars /\ WF_vars(CoordinatorStep)

\* ---------------------------------------------------------------- claims
unread(i) == unread_matches(tabs[i])

\* The lines dispatched so far that match tab i, in arrival order.
MatchingDispatched(i) ==
  SelectSeq(dispatched, LAMBDA d : matches(tabs[i], d.text))

\* The number of lines dispatched since pause was entered that match tab i.
MatchesSincePause(i) ==
  Cardinality({ k \in (pause_seq + 1)..Len(dispatched) :
                  matches(tabs[i], dispatched[k].text) })

\* The buffer lines of tab i a draw would build the body from (draw: the
\* take(cutoff_len) of prepare_visible_lines).
Pool(i) ==
  SubSeq(tabs[i].lines, 1,
         cutoff_len(tabs, i, IF IsSome(pause_snapshot)
                               THEN Some(Unwrap(pause_snapshot).line_cutoffs)
                               ELSE None))

\* A step of the coordinator that dispatches a line.
LineStep == Len(dispatched') = Len(dispatched) + 1
\* A step of the coordinator that takes a message of the given kind off the
\* UI channel.
UiStep(kind) ==
  /\ cpc = "ui"
  /\ ui_rx # << >>
  /\ ChannelFront(ui_rx).kind = kind
  /\ ui_rx' = ChannelRest(ui_rx)

\* C1: in every reachable state every tab has seen_matches <= total_matches.
C1_SeenAtMostTotal ==
  \A i \in DOMAIN tabs : tabs[i].seen_matches <= tabs[i].total_matches

\* C1 witness: after a switch under pause, a tab has been marked seen through
\* its cutoff and still has matches beyond it.
C1_Witness ==
  /\ paused
  /\ last_event = "Switch"
  /\ tabs[active_index].seen_matches > 0
  /\ tabs[active_index].seen_matches < tabs[active_index].total_matches

\* C2: while paused, right after a tab switch the now-active tab's unread count
\* is total_matches minus its pause match cutoff, which is the number of its
\* matches dispatched since pause was entered.
C2_PausedSwitchUnread ==
  (paused /\ last_event = "Switch") =>
    /\ IsSome(pause_snapshot)
    /\ unread(active_index) =
         tabs[active_index].total_matches
           - Unwrap(pause_snapshot).match_cutoffs[active_index]
    /\ unread(active_index) = MatchesSincePause(active_index)

\* C2 witness: a switch under pause to a tab with matches both before and
\* after pause was entered.
C2_Witness ==
  /\ paused
  /\ last_event = "Switch"
  /\ Unwrap(pause_snapshot).match_cutoffs[active_index] > 0
  /\ MatchesSincePause(active_index) > 0

\* C3: in live mode, right after a tab switch the now-active tab has no unread
\* matches.
C3_LiveSwitchClearsUnread ==
  (~paused /\ last_event = "Switch") => unread(active_index) = 0

\* C3 witness: a live switch to a filter tab that has matches.
C3_Witness ==
  /\ ~paused
  /\ last_event = "Switch"
  /\ active_index # 0
  /\ tabs[active_index].total_matches > 0

\* C4: a line arrival raises the unread count of every tab that is not active,
\* and of every tab while paused, by exactly 1 if the line matches the tab and
\* by 0 otherwise (so it never lowers it).
C4_LineArrivalUnread ==
  [][LineStep =>
       \A i \in DOMAIN tabs :
         (i # active_index \/ paused) =>
           unread_matches(tabs'[i]) =
             unread(i) + (IF matches(tabs[i], dispatched'[Len(dispatched')].text)
                            THEN 1 ELSE 0)]_vars

\* C4 witness: the active tab has unread matches while paused.
C4_Witness ==
  /\ paused
  /\ last_event = "Other"
  /\ unread(active_index) > 0
  /\ MatchesSincePause(active_index) > 0

\* C5 (as claimed): while paused, the pool of every tab holds only lines that
\* were in the tab's buffer when pause was entered.
C5_PoolFrozen ==
  paused =>
    \A i \in DOMAIN tabs :
      \A k \in 1..Len(Pool(i)) :
        \E j \in 1..Len(pause_buffers[i]) : Pool(i)[k] = pause_buffers[i][j]

\* C6: pause_snapshot is present iff paused; a TogglePause flips both, and no
\* other step changes either.
C6_SnapshotIffPaused ==
  /\ [](IsSome(pause_snapshot) <=> paused)
  /\ [][/\ UiStep("TogglePause") =>
             (paused' = ~paused /\ IsSome(pause_snapshot') = ~IsSome(pause_snapshot))
        /\ ~UiStep("TogglePause") =>
             (paused' = paused /\ pause_snapshot' = pause_snapshot)]_vars

\* C6 witness: a TogglePause has just entered pause and taken the snapshot.
C6_Witness ==
  /\ last_event = "PauseEntered"
  /\ paused
  /\ IsSome(pause_snapshot)

\* C7: the UI drain starts only when the line drain found the line channel
\* empty, and UI messages are taken only in the UI drain; the snapshot taken on
\* entering pause records every tab's current buffer length and total_matches,
\* so at that instant every buffered line is in the pool and no match lies
\* above the seen cutoff.
C7_DrainOrderAndSnapshot ==
  /\ [](last_event = "PauseEntered" =>
          /\ IsSome(pause_snapshot)
          /\ \A i \in DOMAIN tabs :
               /\ Unwrap(pause_snapshot).line_cutoffs[i] = Len(tabs[i].lines)
               /\ Unwrap(pause_snapshot).match_cutoffs[i] = tabs[i].total_matches
               /\ Unwrap(pause_snapshot).match_cutoffs[i] = Len(MatchingDispatched(i))
               /\ Pool(i) = tabs[i].lines)
  /\ [][/\ (cpc = "lines" /\ cpc' = "ui") => rx = << >>
        /\ (ui_rx # << >> /\ ui_rx' = ChannelRest(ui_rx)) => cpc = "ui"
        /\ (LineStep /\ rx # << >>) => cpc' = "lines"]_vars

\* C7 witness: pause has just been entered with lines dispatched before it.
C7_Witness ==
  /\ last_event = "PauseEntered"
  /\ Len(dispatched) > 0
  /\ tabs[1].total_matches > 0

LineTexts(chan) ==
  LET ls == SelectSeq(chan, LAMBDA m : m.kind = "Line")
  IN [k \in 1..Len(ls) |-> ls[k].text]

LastN(q, n) == SubSeq(q, Len(q) - n + 1, Len(q))

DispatchedLine == dispatched'[Len(dispatched')].text

\* C11: total_matches of every tab is the number of matching lines ever
\* dispatched to it and never decreases; a push that evicts the front of a full
\* buffer still adds exactly 1 to total_matches and leaves seen_matches alone
\* (unless the tab is the active one in live mode, which is marked seen).
C11_CountersAreHistoryBased ==
  /\ [](\A i \in DOMAIN tabs : tabs[i].total_matches = Len(MatchingDispatched(i)))
  /\ [][\A i \in DOMAIN tabs :
          /\ tabs'[i].total_matches >= tabs[i].total_matches
          /\ (/\ LineStep
              /\ matches(tabs[i], DispatchedLine)
              /\ Len(tabs[i].lines) = MAX_STORED_LINES_PER_TAB) =>
               /\ Len(tabs'[i].lines) = MAX_STORED_LINES_PER_TAB
               /\ tabs'[i].lines # tabs[i].lines
               /\ tabs'[i].total_matches = tabs[i].total_matches + 1
               /\ tabs'[i].seen_matches =
                    IF i = active_index /\ ~paused
                      THEN tabs'[i].total_matches
                      ELSE tabs[i].seen_matches]_vars

\* C11 witness: after an eviction, a tab has more unread matches than lines
\* in its buffer.
C11_Witness ==
  \E i \in DOMAIN tabs :
    /\ tabs[i].total_matches > MAX_STORED_LINES_PER_TAB
    /\ Len(tabs[i].lines) = MAX_STORED_LINES_PER_TAB
    /\ unread(i) > Len(tabs[i].lines)

\* The filter of tab i occurs in text: some offset k at which every character
\* of the filter equals, case and all, the character of text at that place.
OccursIn(filter, text) ==
  \E k \in 0..Len(text) :
    \A j \in 1..Len(filter) : k + j <= Len(text) /\ text[k + j] = filter[j]

\* C12: dispatching a line appends the record (seq, text) to exactly the tabs
\* whose filter matches it (tab 0 accepts every line, the empty one too; a
\* filter tab accepts the lines its filter occurs in) and leaves every other
\* tab as it was.
C12_AcceptAppendsToMatchingTabs ==
  [][LineStep =>
       LET d == dispatched'[Len(dispatched')]
       IN /\ d.seq = next_seq
          /\ \A i \in DOMAIN tabs :
               IF i = 0 \/ OccursIn(tabs[i].label, d.text)
                 THEN /\ tabs'[i].lines # << >>
                      /\ tabs'[i].lines[Len(tabs'[i].lines)] = d
                      /\ \A k \in 1..(Len(tabs'[i].lines) - 1) :
                           \E j \in 1..Len(tabs[i].lines) :
                             tabs'[i].lines[k] = tabs[i].lines[j]
                      /\ tabs'[i].total_matches = tabs[i].total_matches + 1
                 ELSE tabs'[i] = tabs[i]]_vars

\* C12 witness: the empty line went to tab 0 alone, and a later line went to
\* tab 0 and to both filter tabs with one seq.
C12_Witness ==
  /\ Len(dispatched) = 2
  /\ dispatched[1].text = << >>
  /\ tabs[0].total_matches = 2
  /\ tabs[1].total_matches = 1
  /\ tabs[2].total_matches = 1
  /\ tabs[1].lines[1] = dispatched[2]
  /\ tabs[2].lines[1] = dispatched[2]

\* The UI message at the front of the UI channel is a mouse press on a row
\* that the last frame shows a line on, and not on the box of a tab.
BodyRowClick ==
  LET m == ChannelFront(ui_rx)
      rows == last_render_state.line_rows
      boxes == last_render_state.tab_hitboxes
  IN /\ m.row \in DOMAIN rows
     /\ IsSome(rows[m.row])
     /\ ~(m.row <= 2 /\ \E k \in 1..Len(boxes) :
                          boxes[k].left <= m.column /\ m.column <= boxes[k].right)

\* The pinned seq is in no tab's buffer.
PinEvicted ==
  /\ IsSome(selected_line)
  /\ \A i \in DOMAIN tabs : \A k \in 1..Len(tabs[i].lines) :
       tabs[i].lines[k].seq # Unwrap(selected_line).seq

FrameSizes == { <<40, 5>>, <<40, 4>>, <<40, 3>> }

\* The number of body rows of a terminal of the given size.
BodyRows(size) == IF size[2] >= 3 THEN size[2] - 3 ELSE Max(size[2] - 2, 0)

\* The body rows of the frame drawn in the current state with tab a active,
\* on a terminal of the given size.
FrameOf(a, size) ==
  draw_line_rows(tabs, a, paused,
                 IF IsSome(pause_snapshot) THEN Some(Unwrap(pause_snapshot).line_cutoffs)
                                           ELSE None,
                 selected_line, size)

\* The frame has a row showing the pinned line, marked selected.
ShowsPin(frame) ==
  \E y \in DOMAIN frame :
    /\ IsSome(frame[y])
    /\ Unwrap(frame[y]) =
         [seq |-> Unwrap(selected_line).seq, text |-> Unwrap(selected_line).text,
          selected |-> TRUE]

\* The number of lines in the pool of tab a that are newer than the pin.
NewerThanPin(a) ==
  Cardinality({ k \in 1..Len(Pool(a)) : Pool(a)[k].seq > Unwrap(selected_line).seq })

\* C14 (as claimed): whenever a pin exists and the body has at least one row,
\* the frame drawn for the active tab, live or paused, has a row showing the
\* pinned line marked selected.
C14_PinInEveryFrame ==
  IsSome(selected_line) =>
    \A size \in FrameSizes :
      (size[1] >= 1 /\ BodyRows(size) >= 1) => ShowsPin(FrameOf(active_index, size))

\* C14 (amended): whenever a pin exists and the terminal has at least one
\* column and one body row, the frame drawn for the active tab has a row
\* showing the pinned line marked selected in paused mode always, and in live
\* mode exactly when fewer pool lines than body rows are newer than the pin.
C14_PinInPausedOrRecentFrame ==
  [](IsSome(selected_line) =>
       \A size \in FrameSizes :
         (size[1] >= 1 /\ BodyRows(size) >= 1) =>
           (ShowsPin(FrameOf(active_index, size))
              <=> (paused \/ NewerThanPin(active_index) < BodyRows(size))))

\* C14 witness: paused with a pin that is older than a line of the active
\* tab's pool, so that one body row cannot show both.
C14_Witness ==
  /\ IsSome(selected_line)
  /\ paused
  /\ NewerThanPin(active_index) >= 1

\* C15: a toggle clears the pin if the pin has the seq of the toggled line,
\* and otherwise (no pin, or a pin with another seq) makes the pin the seq and
\* text of the toggled line; there is never more than one pin; starting from
\* no pin, toggling one line an even number of times ends with no pin and an
\* odd number of times with that line pinned.
C15_ToggleContract ==
  /\ [][LET line == arg'[Len(arg')]
        IN /\ (res # << >> /\ res[1].seq = line.seq) => res' = << >>
           /\ (res = << >> \/ res[1].seq # line.seq) =>
                res' = << [seq |-> line.seq, text |-> line.text] >>]_vars
  /\ [](Len(res) <= 1)
  /\ []((\A k \in 1..Len(arg) : arg[k].seq = arg[1].seq) =>
          (res = << >> <=> Len(arg) % 2 = 0))

\* C15 witness: one line was toggled twice, and no pin is left.
C15_Witness ==
  /\ Len(arg) = 2
  /\ arg[1].seq = arg[2].seq
  /\ res = << >>

\* A step of the coordinator that takes an Error message off the line channel.
InputErrorStep ==
  /\ cpc = "lines"
  /\ rx # << >>
  /\ ChannelFront(rx).kind = "Error"
  /\ rx' = ChannelRest(rx)

\* C16: the terminal modes are held while the event loop runs and are all
\* released once it is left, by Quit, by an error message of the stdin reader
\* or of the TTY reader, or by a failed draw; each of the three error paths
\* leaves the loop with run returning that error (a fatal error, exit 1), Quit
\* leaves it with Ok, and the loop is never resumed.
C16_TerminalReleasedOnExit ==
  /\ [](Running => terminal = TerminalModes /\ run_result = << >>)
  /\ [](~Running => terminal = { } /\ run_result # << >>)
  /\ [](cpc = "failed" =>
          /\ run_result \in { <<ErrStdin>>, <<ErrTty>>, <<ErrTerminal>> }
          /\ exit_code = <<1>>)
  /\ [][/\ InputErrorStep => (cpc' = "failed" /\ run_result' = <<ErrStdin>>)
        /\ UiStep("Error") => (cpc' = "failed" /\ run_result' = <<ErrTty>>)
        /\ UiStep("Quit") => (cpc' = "quit" /\ run_result' = <<"Ok">>)
        /\ (cpc = "draw" /\ cpc' \notin { "draw", "lines" }) =>
             (dirty /\ cpc' = "failed" /\ run_result' = <<ErrTerminal>>)
        /\ ~Running => UNCHANGED << cpc, terminal, run_result, tabs, last_render_state >>]_vars

\* C16 witness: after lines were dispatched a draw failed, the loop was left
\* and the terminal modes are released.
C16_Witness ==
  /\ cpc = "failed"
  /\ run_result = <<ErrTerminal>>
  /\ Len(dispatched) > 0
  /\ terminal = { }

\* C17 (as claimed): dispatching lines never panics and never wraps a
\* counter: next_seq and total_matches are never below their earlier values
\* (they stay at u64::MAX once there), and seen_matches never exceeds
\* total_matches, so that unread is their difference.
C17_CountersNeverPanicOrWrap ==
  /\ ~res.panicked
  /\ ~u64_lt(res.next_seq, arg.start.next_seq)
  /\ ~u64_lt(res.total_matches, arg.start.total_matches)
  /\ ~u64_lt(res.total_matches, res.seen_matches)

\* Bit k of n.
Bit(n, k) == (n \div (2 ^ k)) % 2

\* The report is a press of the left button: the button bits of Cb are 00 and
\* its motion bit (5) and wheel bit (6) are clear.
LeftPress(report) ==
  Bit(report[1], 0) = 0 /\ Bit(report[1], 1) = 0 /\ Bit(report[1], 5) = 0
    /\ Bit(report[1], 6) = 0

\* feed returned nothing for every byte fed but the last of the report.
SilentBeforeFinal ==
  \A k \in 1..Len(res.returned) : k < Len(arg.bytes) => res.returned[k] = << >>

\* C18 (as claimed): fed ESC [ < Cb ; Col ; Row M from Ground, the decoder
\* returns nothing before the final M; on the M it returns MouseLeftDown
\* {column: max(Col-1, 0), row: max(Row-1, 0)} if the report is a left press
\* and nothing otherwise, and is in Ground again.
C18_SgrLeftPressDecoded ==
  /\ SilentBeforeFinal
  /\ Len(res.returned) = Len(arg.bytes) =>
       /\ res.parser.state = "Ground"
       /\ res.returned[Len(arg.bytes)] =
            IF LeftPress(arg.report)
              THEN << MouseLeftDownMsg(Max(arg.report[2] - 1, 0), Max(arg.report[3] - 1, 0)) >>
              ELSE << >>

\* C18 (amended): as claimed, but the M returns the MouseLeftDown only if,
\* besides, each of Cb, Col and Row is at most 65535 (u16::MAX); a report with
\* a greater number returns nothing.
C18_SgrLeftPressDecodedU16 ==
  /\ SilentBeforeFinal
  /\ Len(res.returned) = Len(arg.bytes) =>
       /\ res.parser.state = "Ground"
       /\ res.returned[Len(arg.bytes)] =
            IF LeftPress(arg.report) /\ \A k \in 1..3 : arg.report[k] <= 65535
              THEN << MouseLeftDownMsg(Max(arg.report[2] - 1, 0), Max(arg.report[3] - 1, 0)) >>
              ELSE << >>

\* C18 witness: the report ESC [ < 0 ; 12 ; 7 M has been fed and its M
\* returned MouseLeftDown {column: 11, row: 6}.
C18_Witness ==
  /\ arg.report = << 0, 12, 7 >>
  /\ Len(res.returned) = 10
  /\ res.returned[10] = << MouseLeftDownMsg(11, 6) >>

\* C19: for every text and width w, strip_ansi of
\* clip_ansi_to_visible_width(text, w) is clip_to_width(strip_ansi(text), w):
\* the clipped text shows exactly the first w visible characters.
C19_ClipKeepsFirstVisibleChars ==
  IsSome(res) => strip_ansi(Unwrap(res)) = clip_to_width(strip_ansi(arg.text), arg.width)

\* C19 witness: ESC [ m "0" "0" clipped to width 1 is ESC [ m "0" followed by
\* the reset ESC [ 0 m, which shows the one character "0".
C19_Witness ==
  /\ arg = [text |-> << 27, 91, 109, 48, 48 >>, width |-> 1]
  /\ res = << << 27, 91, 109, 48, 27, 91, 48, 109 >> >>

\* C20 (as claimed): the process exit code is 2 for either usage error (no
\* non-empty filter, or standard output not a terminal), 1 for an I/O or
\* fatal error and 0 for a clean Quit.
C20_ExitCodes ==
  IsSome(exit_code) =>
    Unwrap(exit_code) =
      IF ~stdout_is_terminal \/ Len(filters_of(args)) = 0 THEN 2
      ELSE IF cpc = "quit" THEN 0 ELSE 1

\* C20 (amended): the exit code is 1 when standard output is not a terminal,
\* whatever the arguments; otherwise 2 when no non-empty filter is given;
\* otherwise 0 for a clean Quit and 1 for an I/O or fatal error.
C20_ExitCodesTtyFirst ==
  IsSome(exit_code) =>
    Unwrap(exit_code) =
      IF ~stdout_is_terminal THEN 1
      ELSE IF Len(filters_of(args)) = 0 THEN 2
      ELSE IF cpc = "quit" THEN 0 ELSE 1

\* C20 witness: started with no filter and standard output not a terminal,
\* the process has exited with code 1 and the TTY message on standard error.
C20_Witness ==
  /\ ~stdout_is_terminal
  /\ Len(filters_of(args)) = 0
  /\ exit_code = Some(1)
  /\ stderr = << << "streamtabs failed", ErrNotTty >> >>

\* The byte the step feeds and what feed returned for it.
FedByte == arg.bytes[Len(res.returned) + 1]
Returned == res'.returned[Len(res'.returned)]

\* C21: a byte fed in Esc returns nothing and leads to Csi if it is "[" and
\* to Ground otherwise; a byte fed in Csi returns nothing and stays in Csi
\* unless it is in 0x40..=0x7e, and then leads to Ground and returns nothing
\* or one MouseLeftDown.
C21_EscapeBytesSwallowed ==
  [][ /\ res.parser.state = "Esc" =>
           /\ Returned = << >>
           /\ res'.parser.state = IF FedByte = "[" THEN "Csi" ELSE "Ground"
      /\ (res.parser.state = "Csi" /\ FedByte \notin FinalBytes) =>
           /\ Returned = << >>
           /\ res'.parser.state = "Csi"
      /\ (res.parser.state = "Csi" /\ FedByte \in FinalBytes) =>
           /\ res'.parser.state = "Ground"
           /\ Returned = << >> \/ (Len(Returned) = 1 /\ Returned[1].kind = "MouseLeftDown")
    ]_vars

\* C21 witness: ESC q q has been fed: the q after ESC returned nothing and
\* left the parser in Ground, where the next q returned Quit.
C21_Witness ==
  /\ arg.bytes = << "ESC", "q", "q" >>
  /\ res.returned = << << >>, << >>, << QuitMsg >> >>
  /\ res.parser.state = "Ground"

\* The pool draw builds the body from (the first cutoff_len lines of the
\* buffer) and the spliced list L it built.
ViewPool ==
  SubSeq(arg.tab.lines, 1,
         IF arg.is_paused THEN Unwrap(arg.pause_line_cutoffs)[0] ELSE Len(arg.tab.lines))
ViewL == Unwrap(res.visible_lines)
ViewDrawn == res # << >> /\ IsSome(res.visible_lines)

\* C22: L is sorted by strictly increasing seq and, without its selected
\* synthetic entry, is the pool in order; with a pin exactly one entry of L is
\* selected, it has the pin's seq and text, and L is as long as the pool if
\* the pool has that seq and one longer otherwise; with no pin L is the pool
\* with nothing selected; the tab is as it was.
C22_SpliceSortedOnePin ==
  ViewDrawn =>
    LET pool == ViewPool
        L == ViewL
        inPool(q) == \E k \in 1..Len(pool) : pool[k].seq = q
        kept == SelectSeq(L, LAMBDA l : inPool(l.seq))
    IN /\ \A i, j \in 1..Len(L) : i < j => L[i].seq < L[j].seq
       /\ [k \in 1..Len(kept) |-> [seq |-> kept[k].seq, text |-> kept[k].text]] = pool
       /\ \A k \in 1..Len(L) : ~inPool(L[k].seq) => L[k].selected
       /\ IsSome(arg.selected) =>
            /\ Cardinality({ k \in 1..Len(L) : L[k].selected }) = 1
            /\ \A k \in 1..Len(L) :
                 L[k].selected =>
                   [seq |-> L[k].seq, text |-> L[k].text] = Unwrap(arg.selected)
            /\ Len(L) = Len(pool) + (IF inPool(Unwrap(arg.selected).seq) THEN 0 ELSE 1)
       /\ ~IsSome(arg.selected) =>
            /\ Len(L) = Len(pool)
            /\ \A k \in 1..Len(L) : ~L[k].selected
       /\ res.tab = arg.tab

\* C22 witness: the pool holds seqs 0 and 2 of a buffer 0, 2, 3 cut off at
\* two lines, the pin is on seq 1: L is 0, 1 (synthetic, selected), 2.
C22_Witness ==
  /\ ViewDrawn
  /\ [k \in 1..Len(arg.tab.lines) |-> arg.tab.lines[k].seq] = << 0, 2, 3 >>
  /\ [k \in 1..Len(ViewL) |-> << ViewL[k].seq, ViewL[k].selected >>]
       = << << 0, FALSE >>, << 1, TRUE >>, << 2, FALSE >> >>

\* The body height H of the frame drawn, the 0-based index in L of its
\* selected entry (-1 if none), and the rows of the frame that show a line.
ViewH == arg.size[2] - res.body_start_row
ViewK == FirstTrue([k \in 1..Len(ViewL) |-> ViewL[k].selected]) - 1
ViewRows == { y \in DOMAIN res.line_rows : IsSome(res.line_rows[y]) }
Clamp(x, lo, hi) == IF x < lo THEN lo ELSE IF x > hi THEN hi ELSE x

\* C23: paused with the selected entry at index k of L (N entries, body
\* height H >= 1, V = min(N, H)), the viewport starts at
\* s = min(max(0, k - H/2), N - V) and its first row is
\* clamp(body_start + H/2 - (k - s), body_start, body_start + H - V); the
\* selected entry is inside [s, s + V) and on the row k - s of the view, and
\* every drawn row is inside [body_start, body_start + H).
C23_PausedViewportHoldsPin ==
  (ViewDrawn /\ arg.is_paused /\ ViewK >= 0) =>
    LET N == Len(ViewL)
        H == ViewH
        V == Min(N, H)
        k == ViewK
        s == Min(Max(0, k - (H \div 2)), N - V)
        vp == Unwrap(res.viewport)
        body_start == res.body_start_row
    IN /\ H >= 1
       /\ vp.start_index = s
       /\ vp.visible_count = V
       /\ vp.first_row = Clamp(body_start + (H \div 2) - (k - s), body_start,
                               body_start + H - V)
       /\ s <= k /\ k < s + V
       /\ res.line_rows[vp.first_row + (k - s)] = Some(ViewL[k + 1])
       /\ \A y \in ViewRows : body_start <= y /\ y < body_start + H
       /\ Cardinality(ViewRows) = V

\* C23 witness: paused, L has four entries with the last selected, the body
\* is three rows high: the view starts at index 1 and on the first body row.
C23_Witness ==
  /\ ViewDrawn
  /\ arg.is_paused
  /\ Len(ViewL) = 4
  /\ ViewK = 3
  /\ ViewH = 3
  /\ Unwrap(res.viewport) = [start_index |-> 1, visible_count |-> 3, first_row |-> 3]

\* C24: live, or paused with no selected entry in L, the frame shows the
\* last V = min(N, H) entries of L in order on the rows from
\* body_start + H - V to the bottom body row and on no other row; so the
\* newest entry of a non-empty L is on the bottom body row.
C24_LiveViewBottomAnchored ==
  (ViewDrawn /\ (~arg.is_paused \/ ViewK < 0)) =>
    LET N == Len(ViewL)
        H == ViewH
        V == Min(N, H)
        vp == Unwrap(res.viewport)
        first == res.body_start_row + H - V
    IN /\ vp.visible_count = V
       /\ N > 0 => (vp.start_index = N - V /\ vp.first_row = first)
       /\ ViewRows = first..(res.body_start_row + H - 1)
       /\ \A j \in 0..(V - 1) : res.line_rows[first + j] = Some(ViewL[N - V + j + 1])
       /\ N > 0 => res.line_rows[arg.size[2] - 1] = Some(ViewL[N])

\* C24 witness: live with a pin, L has two entries and the body three rows:
\* the top body row is empty and the two entries are on the rows below it.
C24_Witness ==
  /\ ViewDrawn
  /\ ~arg.is_paused
  /\ ViewK >= 0
  /\ Len(ViewL) = 2
  /\ ViewH = 3
  /\ ViewRows = { 4, 5 }
  /\ res.line_rows[5] = Some(ViewL[2])

\* The press at the head of the UI channel, and what the RenderState of the
\* last draw has under it: the tab whose box holds it (-1 if none) and the
\* line on its row.
Press == ChannelFront(ui_rx)
PressedTab ==
  LET boxes == last_render_state.tab_hitboxes
      k == FirstTrue([j \in 1..Len(boxes) |->
                        boxes[j].left <= Press.column /\ Press.column <= boxes[j].right])
  IN IF Press.row <= 2 /\ k # 0 THEN boxes[k].index ELSE -1
PressedLine ==
  IF Press.row \in DOMAIN last_render_state.line_rows
    THEN last_render_state.line_rows[Press.row] ELSE None

\* C25: a MouseLeftDown on a tab's box of the last RenderState makes that tab
\* active and leaves the pin; otherwise one on a row where the last
\* RenderState has a line toggles the pin on that line (unpinned if the pin
\* has its seq, else pinned to its seq and text) and leaves the tabs and the
\* active tab; otherwise tabs, active tab, pin and dirty are unchanged.
\* Pause state is unchanged in all three cases, and last_render_state
\* changes only in a draw.
C25_PressResolvedOnLastFrame ==
  [][/\ UiStep("MouseLeftDown") =>
          /\ PressedTab >= 0 =>
               /\ active_index' = PressedTab
               /\ selected_line' = selected_line
               /\ dirty'
          /\ (PressedTab < 0 /\ IsSome(PressedLine)) =>
               /\ selected_line' =
                    IF IsSome(selected_line)
                         /\ Unwrap(selected_line).seq = Unwrap(PressedLine).seq
                      THEN None
                      ELSE Some([seq |-> Unwrap(PressedLine).seq,
                                 text |-> Unwrap(PressedLine).text])
               /\ dirty'
               /\ UNCHANGED << tabs, active_index >>
          /\ (PressedTab < 0 /\ ~IsSome(PressedLine)) =>
               UNCHANGED << tabs, active_index, selected_line, dirty >>
          /\ UNCHANGED << paused, pause_snapshot >>
     /\ last_render_state' # last_render_state => (cpc = "draw" /\ dirty /\ cpc' = "lines")
    ]_vars

\* C25 witness: a press is about to be handled on a row where the last
\* RenderState shows a line that the active tab's buffer no longer holds (a
\* line consumed in this tick evicted it), and the next state pins it.
C25_Witness ==
  /\ cpc = "ui"
  /\ ui_rx # << >>
  /\ Press.kind = "MouseLeftDown"
  /\ PressedTab < 0
  /\ IsSome(PressedLine)
  /\ ~IsSome(selected_line)
  /\ \A k \in 1..Len(tabs[active_index].lines) :
       tabs[active_index].lines[k].seq # Unwrap(PressedLine).seq

\* C26: a line consumed while paused leaves dirty as it was and a line
\* consumed live sets it; dirty is false during the line drain of a paused
\* tick, stays as it is when the UI drain ends with the size unchanged, and
\* with dirty false the tick ends without a draw, last_render_state
\* unchanged; dirty is false whenever a tick ends.
C26_PausedLinesDoNotDraw ==
  /\ [](cpc = "lines" /\ paused => ~dirty)
  /\ [][/\ (LineStep /\ paused) => (dirty' = dirty /\ tabs' # tabs)
        /\ (LineStep /\ ~paused) => dirty'
        /\ (cpc = "ui" /\ cpc' = "draw" /\ last_size' = last_size) => dirty' = dirty
        /\ (cpc = "draw" /\ ~dirty /\ cpc' # "draw") =>
             (cpc' = "lines" /\ last_render_state' = last_render_state)
        /\ (cpc = "draw" /\ cpc' = "lines") => ~dirty'
       ]_vars

\* C26 witness: paused, a line dispatched since pause was entered is unread
\* on some tab, and the coordinator is at the end of a tick with dirty false:
\* no draw follows.
C26_Witness ==
  /\ paused
  /\ cpc = "draw"
  /\ ~dirty
  /\ Len(dispatched) > pause_seq
  /\ \E i \in DOMAIN tabs : unread(i) > 0

\* The number of tabs made at startup: the unfiltered tab and one per filter.
TabCount == Len(Filters) + 1

\* C27: the tabs are always the TabCount tabs 0..TabCount-1 and active_index
\* is one of them; a SelectTab whose index is TabCount or more leaves tabs,
\* active_index, pin, pause state, snapshot and dirty as they were; a NextTab
\* makes (active_index + 1) mod TabCount active.
C27_ActiveIndexInRange ==
  /\ [](DOMAIN tabs = 0..(TabCount - 1) /\ active_index \in DOMAIN tabs)
  /\ [][/\ (UiStep("SelectTab") /\ ChannelFront(ui_rx).index >= TabCount) =>
             UNCHANGED << tabs, active_index, selected_line, paused, pause_snapshot, dirty >>
        /\ (UiStep("SelectTab") /\ ChannelFront(ui_rx).index < TabCount) =>
             active_index' = ChannelFront(ui_rx).index
        /\ UiStep("NextTab") => active_index' = (active_index + 1) % TabCount
       ]_vars

\* C27 witness: with the last tab active and nothing to redraw, a SelectTab
\* whose index is past the last tab is at the head of the UI channel, about
\* to be ignored.
C27_Witness ==
  /\ cpc = "ui"
  /\ ui_rx # << >>
  /\ ChannelFront(ui_rx) = SelectTabMsg(TabCount)
  /\ active_index = TabCount - 1
  /\ ~dirty

\* C28: in every state in live mode the active tab has no unread match:
\* its seen_matches equals its total_matches.
C28_LiveActiveTabRead ==
  [](~paused => (/\ unread(active_index) = 0
                 /\ tabs[active_index].seen_matches = tabs[active_index].total_matches))

\* C28 witness: live, a filtered tab is active with a match, all of its
\* matches seen, while another tab has an unread match.
C28_Witness ==
  /\ ~paused
  /\ active_index # 0
  /\ tabs[active_index].total_matches > 0
  /\ tabs[active_index].seen_matches = tabs[active_index].total_matches
  /\ \E i \in DOMAIN tabs : unread(i) > 0

\* C29: while paused the snapshot exists and every tab has
\* seen_matches <= match_cutoffs[i] <= total_matches; the active tab has
\* seen_matches = match_cutoffs[active_index], so its unread count is the
\* number of its matches dispatched since pause was entered.
C29_PausedSeenUpToCutoff ==
  [](paused =>
       /\ IsSome(pause_snapshot)
       /\ \A i \in DOMAIN tabs :
            /\ tabs[i].seen_matches <= Unwrap(pause_snapshot).match_cutoffs[i]
            /\ Unwrap(pause_snapshot).match_cutoffs[i] <= tabs[i].total_matches
       /\ tabs[active_index].seen_matches
            = Unwrap(pause_snapshot).match_cutoffs[active_index]
       /\ unread(active_index) = MatchesSincePause(active_index))

\* C29 witness: paused, a switch has made a filtered tab active that has a
\* match from before the pause, now seen, and one dispatched since, unread.
C29_Witness ==
  /\ paused
  /\ last_event = "Switch"
  /\ active_index # 0
  /\ tabs[active_index].seen_matches > 0
  /\ unread(active_index) > 0

\* A step of the coordinator that consumes the Closed event; the Closed
\* event has been consumed and the loop is running; a step that leaves the loop.
ClosedStep ==
  /\ cpc = "lines"
  /\ rx # << >>
  /\ ChannelFront(rx).kind = "Closed"
  /\ rx' = ChannelRest(rx)
ClosedConsumed == rpc = "stopped" /\ rx = << >> /\ Running
LeavesLoop == Running /\ ~Running'
\* What consuming Closed must keep, and the handling of the UI event at the
\* head of the channel.
SessionState == << tabs, active_index, next_seq, selected_line, paused, pause_snapshot,
                  dirty, last_size, last_render_state, cpc, ui_rx >>
HandleUiEvent ==
  \/ RecvNextTab \/ RecvSelectTab \/ RecvTogglePause \/ RecvClearSelection
  \/ RecvSelectMiddleVisibleLine \/ RecvMouseLeftDown \/ RecvQuit \/ RecvUiError

\* C30 (as claimed): consuming Closed changes nothing of the session and the
\* coordinator stays in the line drain; afterwards a UI event at the head of
\* the channel is still handled; the loop is left only by a Quit or by an
\* error event (stdin or TTY read error).
C30_ClosedKeepsSession ==
  /\ [][/\ ClosedStep => UNCHANGED SessionState
        /\ LeavesLoop => (UiStep("Quit") \/ UiStep("Error") \/ InputErrorStep)
       ]_vars
  /\ []((ClosedConsumed /\ cpc = "ui" /\ ui_rx # << >>) => ENABLED HandleUiEvent)

\* C30 (amended): as claimed, but the loop is also left by a failed draw.
C30_ClosedKeepsSessionUntilExit ==
  /\ [][/\ ClosedStep => UNCHANGED SessionState
        /\ LeavesLoop =>
             \/ UiStep("Quit") \/ UiStep("Error") \/ InputErrorStep
             \/ (cpc = "draw" /\ dirty /\ run_result' = Some(ErrTerminal))
       ]_vars
  /\ []((ClosedConsumed /\ cpc = "ui" /\ ui_rx # << >>) => ENABLED HandleUiEvent)

\* C30 witness: the Closed event has been consumed, the buffers hold a line
\* and the view is paused, and the coordinator is about to handle a UI event.
C30_Witness ==
  /\ ClosedConsumed
  /\ cpc = "ui"
  /\ ui_rx # << >>
  /\ paused
  /\ Len(tabs[0].lines) > 0

\* A Quit event is on the UI channel.
QuitQueued == \E k \in 1..Len(ui_rx) : ui_rx[k].kind = "Quit"

\* C31: once a Quit event is on the UI channel the coordinator eventually
\* leaves its event loop, whatever the line producer does.
C31_QuitEventuallyLeavesLoop == QuitQueued ~> ~Running

====
